---- MODULE Spec2Model ----
(***************************************************************************)
(* The switch configurator: its model and its delivery transports.         *)
(*                                                                         *)
(*   SpecSerial : SerialConfigSender (src/serial_helper.py), one transfer  *)
(*                thread against a caller that may cancel at any moment.   *)
(*   SpecTftp   : upload_config_via_tftp and TFTPServerThread              *)
(*                (src/tftp_helper.py), the caller against the server      *)
(*                thread.                                                  *)
(*   SpecProfile: save_profile and load_profile of the main window on a    *)
(*                Switch that has been filled.                             *)
(*   SpecSwitch : the Switch model (src/main.py), its mutators, the bulk   *)
(*                replacements of the main window, load_profile and        *)
(*                generate_config.                                         *)
(*                                                                         *)
(* pyserial, tftpy, the file system and the clock are the environment:     *)
(* whether a call into them returns or raises is chosen by the action that *)
(* makes the call.                                                         *)
(***************************************************************************)
EXTENDS Integers, Sequences, FiniteSets, TLC

(***************************************************************************)
(* Bounds                                                                  *)
(***************************************************************************)
\* longest configuration text, in characters
MaxTextLen == 5

\* the characters a configuration text is drawn from
Chars == {"a", "\n"}

RECURSIVE TextsUpTo(_)
TextsUpTo(n) ==
    IF n = 0 THEN {<<>>}
    ELSE LET shorter == TextsUpTo(n - 1)
         IN  shorter \cup {Append(t, c) : t \in {u \in shorter : Len(u) = n - 1}, c \in Chars}

Texts == TextsUpTo(MaxTextLen)

(***************************************************************************)
(* State                                                                   *)
(***************************************************************************)
VARIABLES
    \* ---- SerialConfigSender fields
    ser,              \* "none" | "open" | "closed"
    is_connected,
    is_sending,
    last_error,       \* "none" or the text of the last exception
    on_progress,      \* TRUE when a callback is registered, FALSE for None
    on_line_sent,
    on_completed,
    on_error,
    \* ---- the caller (MainWindow.send_config_via_console)
    config_text,      \* the text handed to send_configuration
    sent,             \* send_configuration has returned True
    connect_failed,   \* connect() returned False and the caller gave up
    \* ---- the transfer thread (_send_config_thread)
    spc,              \* its position
    lines,            \* config_text.splitlines()
    idx,              \* enumerate index + 1 of the line being handled
    \* ---- what the environment has observed
    port,             \* the byte strings written to the serial port, in order
    reads,            \* completed read_until calls
    progress_calls,   \* <<i + 1, total_lines>> of each on_progress call
    line_sent_calls,  \* <<line, i + 1, total_lines>> of each on_line_sent call
    sleeps,           \* completed time.sleep(line_delay) calls
    completed_calls,  \* on_completed invocations
    error_calls,      \* on_error invocations
    cancelAt,         \* lines written when cancel() first ran, -1 before
    cancelPc,         \* the thread's position when cancel() first ran
    raised,           \* "none", or the call of the transfer thread that raised
    \* ---- a second send_configuration on the same sender
    spc2,             \* the position of the thread it starts
    lines2,           \* that thread's config_text.splitlines()
    idx2,             \* that thread's enumerate index + 1
    writer,           \* for each entry of port, the thread that wrote it: 1 | 2
    \* ---- tftp_helper: module flag, file system
    TFTP_AVAILABLE,   \* the import of tftpy succeeded
    temp_dir,         \* "none" | "exists" | "removed"
    config_file,      \* the staging file: "absent" | "partial" | "full"
    \* ---- upload_config_via_tftp (the caller)
    upc,              \* its position
    result,           \* <<>> or the returned <<success, message>>
    elapsed,          \* time.time() - start_time, in half seconds
    \* ---- TFTPServerThread
    tpc,              \* position of run()
    server,           \* self.server: "none" | "set"
    success,
    error_message,    \* "none" or the message run() recorded
    stop_event,
    listening,        \* the thread is inside listen(), serving UDP/69
    shutdown,         \* TftpServer.stop() has been called on the server object
    \* ---- what the environment has observed
    phases,           \* the phases of the upload, in the order entered
    probe,            \* "none" | "ok" | "fail": check_connectivity's answer
    polls,            \* time.sleep(0.5) calls of the readiness loop
    seen_success,     \* what line 108 read: "none" | "yes" | "no"
    seen_error,       \* what line 109 read: "none" | "yes" | "no"
    upload,           \* "none" | "running" | "ok" | "tftp_error" | "error"
    listen_early,     \* listen() returned although nobody stopped the server
    dir_created,      \* mkdtemp() has returned
    file_created,     \* open(config_path, 'w') has created the file
    \* ---- Switch (src/main.py): a text is a sequence of strings, its
    \* ---- concatenation being the Python string
    brand,            \* the brand string, one character per element
    hostname,
    template,         \* the template dict, {} when none was loaded
    supports_poe,
    vlans,            \* {id: name}, as the sequence of its <<id, name>> items
    ports,            \* {port_number: settings}, as its <<port, settings>> items
    vlan_interfaces,  \* {vlan_id: settings}, as its <<id, settings>> items
    snmp,             \* snmp_enabled, snmp_community, ... as one record
    ssh,              \* ssh_enabled, ssh_version, ... as one record
    ssh_users,        \* the list of user dicts
    stp,              \* stp_enabled, stp_mode, ... as one record
    \* ---- what the callers of the Switch have observed
    ops,              \* mutations of the model so far
    calls,            \* generate_config calls since the last mutation: 0,
                      \* 1, or 2 for two and more
    renderer,         \* the branch of the brand dispatch the last call took
    config,           \* the local list "config" of the last call, at its end
    generated,        \* the text the last call returned
    gen_error,        \* "none", or the exception the last call raised
    last_op,          \* the last call on the Switch: "init", or its name
    opened,           \* the file the last load_profile opened: "none" |
                      \* "given" (a file of Profiles) | "saved" (profile_file)
    load_error,       \* "none", or the exception the last load_profile caught
    \* ---- the profile file of save_profile
    profile_file,     \* None, or Some(document save_profile has written)
    snapshot          \* None, or Some(switchModel at that save_profile)

varsSerial ==
    <<ser, is_connected, is_sending, last_error, on_progress, on_line_sent,
      on_completed, on_error, config_text, sent, connect_failed, spc, lines, idx, port, reads,
      progress_calls, line_sent_calls, sleeps, completed_calls, error_calls,
      cancelAt, cancelPc, raised, spc2, lines2, idx2, writer>>

varsTftp ==
    <<TFTP_AVAILABLE, temp_dir, config_file, upc, result, elapsed, tpc, server,
      success, error_message, stop_event, listening, shutdown, phases, probe,
      polls, seen_success, seen_error, upload, listen_early, dir_created,
      file_created>>

switchModel ==
    <<hostname, vlans, ports, vlan_interfaces, snmp, ssh, ssh_users, stp>>

switchFixed == <<brand, template, supports_poe>>

generateLog == <<calls, renderer, config, generated, gen_error>>

opLog == <<last_op, opened, load_error>>

fileVars == <<profile_file, snapshot>>

varsSwitch == <<switchFixed, switchModel, ops, generateLog, opLog, fileVars>>

vars == <<varsSerial, varsTftp, varsSwitch>>

(***************************************************************************)
(* Pure helpers                                                            *)
(***************************************************************************)
\* str.splitlines() on a text whose only line boundary is "\n": the text is
\* cut at every "\n", and a text that ends in "\n" has no empty last line.
RECURSIVE SplitFrom(_, _, _)
SplitFrom(s, i, cur) ==
    IF i > Len(s)
    THEN IF cur = <<>> THEN <<>> ELSE <<cur>>
    ELSE IF s[i] = "\n"
         THEN <<cur>> \o SplitFrom(s, i + 1, <<>>)
         ELSE SplitFrom(s, i + 1, Append(cur, s[i]))

SplitLines(s) == SplitFrom(s, 1, <<>>)

CRLF == <<"\r", "\n">>

\* (line + '\r\n').encode('utf-8'): the characters of the model are ASCII,
\* one byte each
Encode(line) == line \o CRLF

(***************************************************************************)
(* SerialConfigSender                                                      *)
(***************************************************************************)
\* __init__, then the callbacks the caller registers before sending
InitSender ==
    /\ ser = "none"
    /\ is_connected = FALSE
    /\ is_sending = FALSE
    /\ last_error = "none"
    /\ on_progress \in BOOLEAN
    /\ on_line_sent \in BOOLEAN
    /\ on_completed \in BOOLEAN
    /\ on_error \in BOOLEAN
    /\ config_text \in Texts
    /\ sent = FALSE
    /\ connect_failed = FALSE
    /\ spc = "none"
    /\ lines = <<>>
    /\ idx = 0
    /\ port = <<>>
    /\ reads = 0
    /\ progress_calls = <<>>
    /\ line_sent_calls = <<>>
    /\ sleeps = 0
    /\ completed_calls = 0
    /\ error_calls = 0
    /\ cancelAt = -1
    /\ cancelPc = "none"
    /\ raised = "none"
    /\ spc2 = "none"
    /\ lines2 = <<>>
    /\ idx2 = 0
    /\ writer = <<>>

connVars == <<ser, is_connected>>
callbacks == <<on_progress, on_line_sent, on_completed, on_error>>
threadVars == <<spc, lines, idx>>
lineLog == <<port, reads, progress_calls, line_sent_calls, sleeps, writer>>
secondThread == <<spc2, lines2, idx2>>
cancelLog == <<cancelAt, cancelPc>>

\* connect(): serial.Serial(...) opens the port or raises
DoConnect(ok) ==
    IF ok
    THEN /\ ser' = "open"
         /\ is_connected' = TRUE
         /\ UNCHANGED <<last_error, error_calls, connect_failed>>
    ELSE /\ last_error' = "connect"
         /\ error_calls' = IF on_error THEN error_calls + 1 ELSE error_calls
         /\ connect_failed' = TRUE
         /\ UNCHANGED connVars

\* the caller's own sender.connect() before send_configuration; the caller
\* drops the sender when it returns False
Connect ==
    /\ ~sent
    /\ ~is_connected
    /\ ~connect_failed
    /\ \E ok \in BOOLEAN : DoConnect(ok)
    /\ UNCHANGED <<is_sending, callbacks, config_text, sent, threadVars,
                   lineLog, completed_calls, cancelLog, raised, secondThread,
                   varsTftp, varsSwitch>>

\* the transfer is started: is_sending = True, then thread.start()
StartTransfer ==
    /\ is_sending' = TRUE
    /\ sent' = TRUE
    /\ spc' = "start"

\* send_configuration(config_text, line_delay): one transfer per sender
SendConfiguration ==
    /\ ~sent
    /\ ~connect_failed
    /\ spc = "none"
    /\ IF is_connected
       THEN /\ StartTransfer
            /\ UNCHANGED <<connVars, last_error, error_calls, connect_failed>>
       ELSE \E ok \in BOOLEAN :
               /\ DoConnect(ok)
               /\ IF ok THEN StartTransfer
                        ELSE UNCHANGED <<is_sending, sent, spc>>
    /\ UNCHANGED <<callbacks, config_text, lines, idx, lineLog,
                   completed_calls, cancelLog, raised, secondThread,
                   varsTftp, varsSwitch>>

\* cancel(): only clears the flag
Cancel ==
    /\ sent
    /\ is_sending' = FALSE
    /\ cancelAt' = IF cancelAt = -1 THEN Len(port) ELSE cancelAt
    /\ cancelPc' = IF cancelAt = -1 THEN spc ELSE cancelPc
    /\ UNCHANGED <<connVars, last_error, callbacks, config_text, sent,
                   connect_failed, threadVars, lineLog, completed_calls,
                   error_calls, raised, secondThread, varsTftp, varsSwitch>>

\* what no step of the transfer thread touches
threadFrame ==
    <<connVars, callbacks, config_text, sent, connect_failed, cancelLog,
      secondThread, varsTftp, varsSwitch>>

\* lines = config_text.splitlines(); total_lines = len(lines)
ThreadSplit ==
    /\ spc = "start"
    /\ lines' = SplitLines(config_text)
    /\ idx' = 1
    /\ spc' = "check"
    /\ UNCHANGED <<threadFrame, is_sending, last_error, lineLog,
                   completed_calls, error_calls, raised>>

\* ThreadCheck without its cancellation test
ThreadCheck_IgnoresCancel ==
    /\ spc = "check"
    /\ spc' = IF idx > Len(lines) THEN "notify" ELSE "write"
    /\ UNCHANGED <<threadFrame, is_sending, last_error, lines, idx, lineLog,
                   completed_calls, error_calls, raised>>

\* the head of the for loop and its "if not self.is_sending: break"
ThreadCheck ==
    /\ spc = "check"
    /\ spc' = IF idx > Len(lines) \/ ~is_sending THEN "notify" ELSE "write"
    /\ UNCHANGED <<threadFrame, is_sending, last_error, lines, idx, lineLog,
                   completed_calls, error_calls, raised>>

\* self.ser.write((line + '\r\n').encode('utf-8'))
ThreadWrite ==
    /\ spc = "write"
    /\ \E ok \in BOOLEAN :
          IF ok
          THEN /\ port' = Append(port, Encode(lines[idx]))
               /\ writer' = Append(writer, 1)
               /\ spc' = "read"
               /\ UNCHANGED raised
          ELSE /\ raised' = "write"
               /\ spc' = "except"
               /\ UNCHANGED <<port, writer>>
    /\ UNCHANGED <<threadFrame, is_sending, last_error, lines, idx, reads,
                   progress_calls, line_sent_calls, sleeps, completed_calls,
                   error_calls>>

\* response = self.ser.read_until(b'#', timeout=1): returns (response
\* unused) or raises, as pyserial decides
ThreadRead ==
    /\ spc = "read"
    /\ \E ok \in BOOLEAN :
          IF ok
          THEN /\ reads' = reads + 1
               /\ spc' = "progress"
               /\ UNCHANGED raised
          ELSE /\ raised' = "read"
               /\ spc' = "except"
               /\ UNCHANGED reads
    /\ UNCHANGED <<threadFrame, is_sending, last_error, lines, idx, port,
                   writer, progress_calls, line_sent_calls, sleeps,
                   completed_calls, error_calls>>

\* if self.on_progress: self.on_progress((i + 1) / total_lines)
ThreadProgress ==
    /\ spc = "progress"
    /\ progress_calls' = IF on_progress
                         THEN Append(progress_calls, <<idx, Len(lines)>>)
                         ELSE progress_calls
    /\ spc' = "line_sent"
    /\ UNCHANGED <<threadFrame, is_sending, last_error, lines, idx, port,
                   writer, reads, line_sent_calls, sleeps, completed_calls,
                   error_calls, raised>>

\* if self.on_line_sent: self.on_line_sent(line, i+1, total_lines)
ThreadLineSent ==
    /\ spc = "line_sent"
    /\ line_sent_calls' = IF on_line_sent
                          THEN Append(line_sent_calls, <<lines[idx], idx, Len(lines)>>)
                          ELSE line_sent_calls
    /\ spc' = "sleep"
    /\ UNCHANGED <<threadFrame, is_sending, last_error, lines, idx, port,
                   writer, reads, progress_calls, sleeps, completed_calls,
                   error_calls, raised>>

\* ThreadSleep with the pause between two lines left out
ThreadSleep_NoPause ==
    /\ spc = "sleep"
    /\ idx' = idx + 1
    /\ spc' = "check"
    /\ UNCHANGED <<threadFrame, is_sending, last_error, lines, lineLog,
                   completed_calls, error_calls, raised>>

\* time.sleep(line_delay), then the next iteration
ThreadSleep ==
    /\ spc = "sleep"
    /\ sleeps' = sleeps + 1
    /\ idx' = idx + 1
    /\ spc' = "check"
    /\ UNCHANGED <<threadFrame, is_sending, last_error, lines, port, writer,
                   reads, progress_calls, line_sent_calls, completed_calls,
                   error_calls, raised>>

\* ThreadNotify that tests the callback only, not the flag
ThreadNotify_IgnoresFlag ==
    /\ spc = "notify"
    /\ spc' = IF on_completed THEN "call_completed" ELSE "finally"
    /\ UNCHANGED <<threadFrame, is_sending, last_error, lines, idx, lineLog,
                   completed_calls, error_calls, raised>>

\* if self.on_completed and self.is_sending:
ThreadNotify ==
    /\ spc = "notify"
    /\ spc' = IF on_completed /\ is_sending THEN "call_completed" ELSE "finally"
    /\ UNCHANGED <<threadFrame, is_sending, last_error, lines, idx, lineLog,
                   completed_calls, error_calls, raised>>

\* self.on_completed("Configuration envoyee avec succes")
ThreadCallCompleted ==
    /\ spc = "call_completed"
    /\ completed_calls' = completed_calls + 1
    /\ spc' = "finally"
    /\ UNCHANGED <<threadFrame, is_sending, last_error, lines, idx, lineLog,
                   error_calls, raised>>

\* ThreadExcept that swallows the exception: no last_error, no on_error
ThreadExcept_Silent ==
    /\ spc = "except"
    /\ spc' = "finally"
    /\ UNCHANGED <<threadFrame, is_sending, last_error, lines, idx, lineLog,
                   completed_calls, error_calls, raised>>

\* except Exception as e: last_error, then on_error if registered
ThreadExcept ==
    /\ spc = "except"
    /\ last_error' = raised
    /\ error_calls' = IF on_error THEN error_calls + 1 ELSE error_calls
    /\ spc' = "finally"
    /\ UNCHANGED <<threadFrame, is_sending, lines, idx, lineLog,
                   completed_calls, raised>>

\* finally: self.is_sending = False
ThreadFinally ==
    /\ spc = "finally"
    /\ is_sending' = FALSE
    /\ spc' = "done"
    /\ UNCHANGED <<threadFrame, last_error, lines, idx, lineLog,
                   completed_calls, error_calls, raised>>

NextSender ==
    \/ Connect
    \/ SendConfiguration
    \/ Cancel
    \/ ThreadSplit
    \/ ThreadCheck
    \/ ThreadWrite
    \/ ThreadRead
    \/ ThreadProgress
    \/ ThreadLineSent
    \/ ThreadSleep
    \/ ThreadNotify
    \/ ThreadCallCompleted
    \/ ThreadExcept
    \/ ThreadFinally

(***************************************************************************)
(* A second transfer on the same SerialConfigSender                        *)
(***************************************************************************)
\* the longest text sent twice
MaxResendLen == 2

ResendTexts == TextsUpTo(MaxResendLen)

\* a transfer thread that has been started and has not returned
Active(pc) == pc \notin {"none", "done"}

\* what no step of the second thread touches
secondFrame ==
    <<connVars, callbacks, config_text, sent, connect_failed, cancelLog,
      threadVars, varsTftp, varsSwitch>>

\* send_configuration again on a sender that has sent: is_connected holds,
\* nothing tests is_sending or the earlier thread; is_sending = True, then
\* a new thread is started
Resend ==
    /\ sent
    /\ is_connected
    /\ spc2 = "none"
    /\ is_sending' = TRUE
    /\ spc2' = "start"
    /\ UNCHANGED <<secondFrame, last_error, lines2, idx2, lineLog,
                   completed_calls, error_calls, raised>>

\* the second thread: lines = config_text.splitlines()
Thread2Split ==
    /\ spc2 = "start"
    /\ lines2' = SplitLines(config_text)
    /\ idx2' = 1
    /\ spc2' = "check"
    /\ UNCHANGED <<secondFrame, is_sending, last_error, lineLog,
                   completed_calls, error_calls, raised>>

\* the second thread: the head of the for loop, "if not self.is_sending: break"
Thread2Check ==
    /\ spc2 = "check"
    /\ spc2' = IF idx2 > Len(lines2) \/ ~is_sending THEN "notify" ELSE "write"
    /\ UNCHANGED <<secondFrame, is_sending, last_error, lines2, idx2, lineLog,
                   completed_calls, error_calls, raised>>

\* the second thread: self.ser.write(...) on the same self.ser
Thread2Write ==
    /\ spc2 = "write"
    /\ \E ok \in BOOLEAN :
          IF ok
          THEN /\ port' = Append(port, Encode(lines2[idx2]))
               /\ writer' = Append(writer, 2)
               /\ spc2' = "read"
               /\ UNCHANGED raised
          ELSE /\ raised' = "write"
               /\ spc2' = "except"
               /\ UNCHANGED <<port, writer>>
    /\ UNCHANGED <<secondFrame, is_sending, last_error, lines2, idx2, reads,
                   progress_calls, line_sent_calls, sleeps, completed_calls,
                   error_calls>>

\* the second thread: read_until, on_progress, on_line_sent and
\* time.sleep(line_delay), then the next iteration
Thread2Rest ==
    /\ spc2 = "read"
    /\ \E ok \in BOOLEAN :
          IF ok
          THEN /\ reads' = reads + 1
               /\ progress_calls' =
                     IF on_progress
                     THEN Append(progress_calls, <<idx2, Len(lines2)>>)
                     ELSE progress_calls
               /\ line_sent_calls' =
                     IF on_line_sent
                     THEN Append(line_sent_calls,
                                 <<lines2[idx2], idx2, Len(lines2)>>)
                     ELSE line_sent_calls
               /\ sleeps' = sleeps + 1
               /\ idx2' = idx2 + 1
               /\ spc2' = "check"
               /\ UNCHANGED raised
          ELSE /\ raised' = "read"
               /\ spc2' = "except"
               /\ UNCHANGED <<reads, progress_calls, line_sent_calls, sleeps,
                              idx2>>
    /\ UNCHANGED <<secondFrame, is_sending, last_error, lines2, port, writer,
                   completed_calls, error_calls>>

\* the second thread: if self.on_completed and self.is_sending:
\* self.on_completed(...)
Thread2Notify ==
    /\ spc2 = "notify"
    /\ completed_calls' = IF on_completed /\ is_sending
                          THEN completed_calls + 1
                          ELSE completed_calls
    /\ spc2' = "finally"
    /\ UNCHANGED <<secondFrame, is_sending, last_error, lines2, idx2, lineLog,
                   error_calls, raised>>

\* the second thread: except Exception as e
Thread2Except ==
    /\ spc2 = "except"
    /\ last_error' = raised
    /\ error_calls' = IF on_error THEN error_calls + 1 ELSE error_calls
    /\ spc2' = "finally"
    /\ UNCHANGED <<secondFrame, is_sending, lines2, idx2, lineLog,
                   completed_calls, raised>>

\* the second thread: finally: self.is_sending = False
Thread2Finally ==
    /\ spc2 = "finally"
    /\ is_sending' = FALSE
    /\ spc2' = "done"
    /\ UNCHANGED <<secondFrame, last_error, lines2, idx2, lineLog,
                   completed_calls, error_calls, raised>>

NextResend ==
    \/ Connect
    \/ SendConfiguration
    \/ Cancel
    \/ ThreadSplit
    \/ ThreadCheck
    \/ ThreadWrite
    \/ ThreadRead
    \/ ThreadProgress
    \/ ThreadLineSent
    \/ ThreadSleep
    \/ ThreadNotify
    \/ ThreadCallCompleted
    \/ ThreadExcept
    \/ ThreadFinally
    \/ Resend
    \/ Thread2Split
    \/ Thread2Check
    \/ Thread2Write
    \/ Thread2Rest
    \/ Thread2Notify
    \/ Thread2Except
    \/ Thread2Finally

(***************************************************************************)
(* tftp_helper: upload_config_via_tftp and TFTPServerThread                *)
(***************************************************************************)
\* while ... time.time() - start_time < 5, in half seconds
ReadyTimeout == 10

\* time.sleep(0.5) of the readiness loop, in half seconds
PollInterval == 1

\* the messages the call returns or the server thread records
MsgUnavailable == "Module TFTP non disponible"
MsgUnreachable == "Le switch n'est pas accessible"
MsgServerUnavailable == "Module tftpy non disponible"
MsgServerError == "Erreur du serveur TFTP"
MsgTimeout == "Le serveur TFTP n'a pas pu demarrer dans le delai imparti"
MsgSent == "Configuration envoyee avec succes via TFTP"
MsgTftpError == "Erreur TFTP"
MsgError == "Erreur lors de l'envoi via TFTP"

\* before the call; the server thread object does not exist yet
InitTftp ==
    /\ TFTP_AVAILABLE \in BOOLEAN
    /\ temp_dir = "none"
    /\ config_file = "absent"
    /\ upc = "idle"
    /\ result = <<>>
    /\ elapsed = 0
    /\ tpc = "none"
    /\ server = "none"
    /\ success = FALSE
    /\ error_message = "none"
    /\ stop_event = FALSE
    /\ listening = FALSE
    /\ shutdown = FALSE
    /\ phases = <<"Idle">>
    /\ probe = "none"
    /\ polls = 0
    /\ seen_success = "none"
    /\ seen_error = "none"
    /\ upload = "none"
    /\ listen_early = FALSE
    /\ dir_created = FALSE
    /\ file_created = FALSE

fsVars == <<temp_dir, config_file, dir_created, file_created>>
serverVars == <<tpc, server, success, error_message, listening, listen_early>>
pollLog == <<elapsed, polls, seen_success, seen_error>>

\* what no step of the upload or of the server thread touches
fixed == <<TFTP_AVAILABLE, varsSerial, varsSwitch>>

\* a return statement inside the try block: the value is kept, the finally
\* block runs next
ReturnThroughFinally(ok, msg) ==
    /\ result' = <<ok, msg>>
    /\ phases' = Append(phases, IF ok THEN "Succeeded" ELSE "Failed")
    /\ upc' = "finally"

\* the call: "if not TFTP_AVAILABLE: return False, ..."
UploadCall ==
    /\ upc = "idle"
    /\ IF TFTP_AVAILABLE
       THEN /\ upc' = "mkdtemp"
            /\ UNCHANGED <<result, phases>>
       ELSE /\ result' = <<FALSE, MsgUnavailable>>
            /\ phases' = Append(phases, "Failed")
            /\ upc' = "returned"
    /\ UNCHANGED <<fixed, fsVars, serverVars, pollLog, stop_event,
                   shutdown, probe, upload>>

\* temp_dir = tempfile.mkdtemp(), before the try block: an OSError leaves
\* the function
UploadMkdtemp ==
    /\ upc = "mkdtemp"
    /\ \E ok \in BOOLEAN :
          IF ok
          THEN /\ temp_dir' = "exists"
               /\ dir_created' = TRUE
               /\ upc' = "probe"
          ELSE /\ upc' = "raised"
               /\ UNCHANGED <<temp_dir, dir_created>>
    /\ UNCHANGED <<fixed, config_file, file_created, result,
                   serverVars, pollLog, stop_event, shutdown, phases, probe,
                   upload>>

\* if not check_connectivity(switch_ip): return False, ...
UploadProbe ==
    /\ upc = "probe"
    /\ \E ok \in BOOLEAN :
          /\ probe' = IF ok THEN "ok" ELSE "fail"
          /\ IF ok
             THEN /\ phases' = Append(phases, "ConnectivityChecked")
                  /\ upc' = "stage"
                  /\ UNCHANGED result
             ELSE ReturnThroughFinally(FALSE, MsgUnreachable)
    /\ UNCHANGED <<fixed, fsVars, serverVars, pollLog, stop_event,
                   shutdown, upload>>

\* with open(config_path, 'w') as f: f.write(config_text)
UploadStage ==
    /\ upc = "stage"
    /\ \E outcome \in {"full", "partial", "absent"} :
          /\ config_file' = outcome
          /\ file_created' = (outcome # "absent")
          /\ IF outcome = "full"
             THEN /\ phases' = Append(phases, "Staged")
                  /\ upc' = "start"
                  /\ UNCHANGED result
             ELSE ReturnThroughFinally(FALSE, MsgError)
    /\ UNCHANGED <<fixed, temp_dir, dir_created, serverVars, pollLog,
                   stop_event, shutdown, probe, upload>>

\* server = TFTPServerThread(temp_dir); server.start(); start_time = time.time()
UploadStartServer ==
    /\ upc = "start"
    /\ tpc' = "run"
    /\ phases' = Append(phases, "ServerStarting")
    /\ upc' = "poll"
    /\ UNCHANGED <<fixed, fsVars, result, server, success,
                   error_message, listening, listen_early, pollLog,
                   stop_event, shutdown, probe, upload>>

\* while not server.success and server.error_message is None
\*       and time.time() - start_time < 5:
UploadPollTest ==
    /\ upc = "poll"
    /\ upc' = IF ~success /\ error_message = "none" /\ elapsed < ReadyTimeout
              THEN "poll_sleep" ELSE "check_success"
    /\ UNCHANGED <<fixed, fsVars, result, serverVars, pollLog,
                   stop_event, shutdown, phases, probe, upload>>

\* time.sleep(0.5): the pause lasts the interval, or one tick longer
UploadPollSleep ==
    /\ upc = "poll_sleep"
    /\ \E late \in 0..1 : elapsed' = elapsed + PollInterval + late
    /\ polls' = polls + 1
    /\ upc' = "poll"
    /\ UNCHANGED <<fixed, fsVars, result, serverVars, seen_success,
                   seen_error, stop_event, shutdown, phases, probe, upload>>

\* UploadCheckSuccess that goes on to the upload whatever the flag says
UploadCheckSuccess_NoTest ==
    /\ upc = "check_success"
    /\ seen_success' = IF success THEN "yes" ELSE "no"
    /\ phases' = Append(phases, "ServerReady")
    /\ upc' = "upload"
    /\ UNCHANGED <<fixed, fsVars, result, serverVars, elapsed, polls,
                   seen_error, stop_event, shutdown, probe, upload>>

\* if not server.success:
UploadCheckSuccess ==
    /\ upc = "check_success"
    /\ seen_success' = IF success THEN "yes" ELSE "no"
    /\ IF success
       THEN /\ phases' = Append(phases, "ServerReady")
            /\ upc' = "upload"
       ELSE /\ upc' = "check_error"
            /\ UNCHANGED phases
    /\ UNCHANGED <<fixed, fsVars, result, serverVars, elapsed, polls,
                   seen_error, stop_event, shutdown, probe, upload>>

\* UploadCheckError that reports the timeout whatever the server recorded
UploadCheckError_AlwaysTimeout ==
    /\ upc = "check_error"
    /\ seen_error' = IF error_message # "none" THEN "yes" ELSE "no"
    /\ ReturnThroughFinally(FALSE, MsgTimeout)
    /\ UNCHANGED <<fixed, fsVars, serverVars, elapsed, polls,
                   seen_success, stop_event, shutdown, probe, upload>>

\* if server.error_message: return False, server.error_message
\* return False, "Le serveur TFTP n'a pas pu demarrer dans le delai imparti."
UploadCheckError ==
    /\ upc = "check_error"
    /\ seen_error' = IF error_message # "none" THEN "yes" ELSE "no"
    /\ ReturnThroughFinally(FALSE, IF error_message # "none" THEN error_message
                                                              ELSE MsgTimeout)
    /\ UNCHANGED <<fixed, fsVars, serverVars, elapsed, polls,
                   seen_success, stop_event, shutdown, probe, upload>>

\* client = tftpy.TftpClient(switch_ip, 69); client.upload(...) is entered
UploadBegin ==
    /\ upc = "upload"
    /\ upload' = "running"
    /\ phases' = Append(phases, "Uploading")
    /\ upc' = "uploading"
    /\ UNCHANGED <<fixed, fsVars, result, serverVars, pollLog,
                   stop_event, shutdown, probe>>

\* client.upload returns, raises tftpy.TftpException, or raises otherwise
UploadEnd ==
    /\ upc = "uploading"
    /\ \E outcome \in {"ok", "tftp_error", "error"} :
          /\ upload' = outcome
          /\ ReturnThroughFinally(outcome = "ok",
                CASE outcome = "ok" -> MsgSent
                  [] outcome = "tftp_error" -> MsgTftpError
                  [] OTHER -> MsgError)
    /\ UNCHANGED <<fixed, fsVars, serverVars, pollLog, stop_event,
                   shutdown, probe>>

\* finally: if 'server' in locals(): server.stop()
\* stop(): self.stop_event.set(); if self.server: ...
UploadFinallyStop ==
    /\ upc = "finally"
    /\ IF tpc = "none"
       THEN /\ upc' = "cleanup"
            /\ UNCHANGED stop_event
       ELSE /\ stop_event' = TRUE
            /\ upc' = IF server = "set" THEN "stop_server" ELSE "cleanup"
    /\ UNCHANGED <<fixed, fsVars, result, serverVars, pollLog,
                   shutdown, phases, probe, upload>>

\* time.sleep(0.5); try: self.server.stop() except: pass
UploadStopServer ==
    /\ upc = "stop_server"
    /\ shutdown' = TRUE
    /\ upc' = "cleanup"
    /\ UNCHANGED <<fixed, fsVars, result, serverVars, pollLog,
                   stop_event, phases, probe, upload>>

\* try: os.remove(config_path); os.rmdir(temp_dir) except: pass
\* os.remove raises when the file was never created, and rmdir is skipped
UploadCleanup ==
    /\ upc = "cleanup"
    /\ IF config_file # "absent"
       THEN /\ config_file' = "absent"
            /\ temp_dir' = "removed"
       ELSE UNCHANGED <<config_file, temp_dir>>
    /\ phases' = Append(phases, "CleanedUp")
    /\ upc' = "returned"
    /\ UNCHANGED <<fixed, dir_created, file_created, result,
                   serverVars, pollLog, stop_event, shutdown, probe, upload>>

\* what no step of the server thread touches
serverFrame ==
    <<fixed, fsVars, upc, result, pollLog, stop_event, phases, probe,
      upload>>

\* run(): the availability test, then tftpy.TftpServer(self.root_path)
ServerRun ==
    /\ tpc = "run"
    /\ IF ~TFTP_AVAILABLE
       THEN /\ error_message' = MsgServerUnavailable
            /\ tpc' = "done"
       ELSE \E ok \in BOOLEAN :
               IF ok
               THEN /\ tpc' = "assign"
                    /\ UNCHANGED error_message
               ELSE /\ error_message' = MsgServerError
                    /\ tpc' = "done"
    /\ UNCHANGED <<serverFrame, server, success, listening, listen_early,
                   shutdown>>

\* self.server = <the new TftpServer>
ServerAssign ==
    /\ tpc = "assign"
    /\ server' = "set"
    /\ tpc' = "listen"
    /\ UNCHANGED <<serverFrame, success, error_message, listening,
                   listen_early, shutdown>>

\* self.server.listen(self.ip, self.port) binds UDP/69, or raises
ServerListen ==
    /\ tpc = "listen"
    /\ \E ok \in BOOLEAN :
          IF ok
          THEN /\ listening' = TRUE
               /\ tpc' = "listening"
               /\ UNCHANGED error_message
          ELSE /\ error_message' = MsgServerError
               /\ tpc' = "done"
               /\ UNCHANGED listening
    /\ UNCHANGED <<serverFrame, server, success, listen_early, shutdown>>

\* listen() serves until the server object is told to stop, then returns
ServerListenStopped ==
    /\ tpc = "listening"
    /\ shutdown
    /\ listening' = FALSE
    /\ tpc' = "set_success"
    /\ UNCHANGED <<serverFrame, server, success, error_message, listen_early,
                   shutdown>>

\* listen() returns although nobody stopped the server; run() goes on to
\* line 55 as after any return of the library call
ServerListenReturnsEarly ==
    /\ tpc = "listening"
    /\ ~shutdown
    /\ listening' = FALSE
    /\ listen_early' = TRUE
    /\ tpc' = "set_success"
    /\ UNCHANGED <<serverFrame, server, success, error_message, shutdown>>

\* self.success = True, the statement after listen()
ServerSetSuccess ==
    /\ tpc = "set_success"
    /\ success' = TRUE
    /\ tpc' = "done"
    /\ UNCHANGED <<serverFrame, server, error_message, listening,
                   listen_early, shutdown>>

NextUpload ==
    \/ UploadCall
    \/ UploadMkdtemp
    \/ UploadProbe
    \/ UploadStage
    \/ UploadStartServer
    \/ UploadPollTest
    \/ UploadPollSleep
    \/ UploadCheckSuccess
    \/ UploadCheckError
    \/ UploadBegin
    \/ UploadEnd
    \/ UploadFinallyStop
    \/ UploadStopServer
    \/ UploadCleanup
    \/ ServerRun
    \/ ServerAssign
    \/ ServerListen
    \/ ServerListenStopped
    \/ ServerListenReturnsEarly
    \/ ServerSetSuccess

(***************************************************************************)
(* Switch: the model and its mutators (src/main.py)                        *)
(***************************************************************************)
\* most mutations of one Switch
MaxOps == 2

\* the brands a Switch is built with: the names of the directories under
\* templates/, in any spelling
Brands ==
    { <<"C", "i", "s", "c", "o">>,
      <<"H", "P">>,
      <<"j", "u", "n", "i", "p", "e", "r">>,
      <<"A", "r", "u", "b", "a">>,
      <<"a", "l", "c", "a", "t", "e", "l">>,
      <<"n", "e", "t", "g", "e", "a", "r">> }

\* self.model
ModelName == "m24"

\* {}, a dict of named fields without any
EmptyDict == [k \in {} |-> <<>>]

\* load_template found no file, or the file did not parse: template or {}
EmptyTemplate == EmptyDict

\* a template with PoE support and two default commands, the first of them
\* holding the {hostname} placeholder
FullTemplate ==
    [ supports |-> [poe |-> TRUE],
      default_commands |-> << <<"snmp-server location ", "{hostname}">>,
                              <<"end">> >> ]

Templates == {EmptyTemplate, FullTemplate}

\* str.lower(), on the letters the brands are written with
LowerChar(c) ==
    CASE c = "A" -> "a"
      [] c = "C" -> "c"
      [] c = "H" -> "h"
      [] c = "P" -> "p"
      [] OTHER -> c

Lower(s) == [i \in DOMAIN s |-> LowerChar(s[i])]

\* None, and a value that is not None
None == <<>>
Some(x) == <<x>>

\* key in d, for a dict held as the sequence of its items
HasKey(d, k) == \E i \in DOMAIN d : d[i][1] = k

\* d.get(k, default)
DictGet(d, k, default) ==
    IF HasKey(d, k)
    THEN d[CHOOSE i \in DOMAIN d : d[i][1] = k][2]
    ELSE default

\* d[k] = v: a new key goes last, an old key keeps its place
DictSet(d, k, v) ==
    IF HasKey(d, k)
    THEN [i \in DOMAIN d |-> IF d[i][1] = k THEN <<k, v>> ELSE d[i]]
    ELSE Append(d, <<k, v>>)

\* _supports_poe()
SupportsPoe(t) ==
    IF t # EmptyTemplate /\ "supports" \in DOMAIN t
    THEN IF "poe" \in DOMAIN t.supports THEN t.supports.poe ELSE FALSE
    ELSE FALSE

\* Switch.__init__(brand, model)
InitSwitch ==
    /\ brand \in Brands
    /\ template \in Templates
    /\ supports_poe = SupportsPoe(template)
    /\ hostname = brand \o <<"-", ModelName>>
    /\ vlans = <<>>
    /\ ports = <<>>
    /\ vlan_interfaces = <<>>
    /\ snmp = [enabled |-> FALSE, community |-> "public", version |-> "2c",
               location |-> "", contact |-> ""]
    /\ ssh = [enabled |-> FALSE, version |-> "2", timeout |-> "60",
              auth_retries |-> "3", key_auth |-> FALSE]
    /\ ssh_users = <<>>
    /\ stp = [enabled |-> TRUE, mode |-> "rapid-pvst", priority |-> "32768",
              portfast |-> TRUE, bpduguard |-> TRUE, loopguard |-> FALSE]
    /\ ops = 0
    /\ calls = 0
    /\ renderer = "none"
    /\ config = <<>>
    /\ generated = <<>>
    /\ gen_error = "none"
    /\ last_op = "init"
    /\ opened = "none"
    /\ load_error = "none"
    /\ profile_file = None
    /\ snapshot = None

(***************************************************************************)
(* Switch.generate_config                                                  *)
(*                                                                         *)
(* Each element of the list "config" is kept with the place that appended  *)
(* it: the section of the renderer and the VLAN or port of the loop        *)
(* iteration (0 outside the loops).                                        *)
(***************************************************************************)
Line(sec, key, text) == [sec |-> sec, key |-> key, text |-> text]

\* the concatenation of a sequence of sequences
RECURSIVE Flatten(_)
Flatten(ss) ==
    IF Len(ss) = 0 THEN <<>> ELSE Head(ss) \o Flatten(Tail(ss))

\* {x} in an f-string, x an int
Str(x) == ToString(x)

\* settings.get(k, default), settings a dict of named fields
FieldGet(settings, k, default) ==
    IF k \in DOMAIN settings THEN settings[k] ELSE default

\* if settings.get('vlan'): neither None nor 0
HasVlan(settings) ==
    LET v == FieldGet(settings, "vlan", None)
    IN  v # None /\ v[1] # 0

\* cmd.replace("{hostname}", self.hostname)
RECURSIVE ReplaceHostname(_)
ReplaceHostname(cmd) ==
    IF Len(cmd) = 0 THEN <<>>
    ELSE (IF Head(cmd) = "{hostname}" THEN hostname ELSE <<Head(cmd)>>)
            \o ReplaceHostname(Tail(cmd))

\* if "default_commands" in self.template: for cmd in ...: config.append(...)
DefaultCommands ==
    IF "default_commands" \in DOMAIN template
    THEN [i \in DOMAIN template.default_commands |->
             Line("default_commands", 0,
                  ReplaceHostname(template.default_commands[i]))]
    ELSE <<>>

\* ---- cisco
\* CiscoVlan without the name line
CiscoVlan_NoName(vlan_id, vlan_name) ==
    << Line("vlan", vlan_id, <<"vlan ", Str(vlan_id)>>),
       Line("vlan", vlan_id, <<"!">>) >>

CiscoVlan(vlan_id, vlan_name) ==
    << Line("vlan", vlan_id, <<"vlan ", Str(vlan_id)>>),
       Line("vlan", vlan_id, <<" name ", vlan_name>>),
       Line("vlan", vlan_id, <<"!">>) >>

CiscoPoe(p, settings) ==
    IF supports_poe /\ FieldGet(settings, "poe", FALSE)
    THEN << Line("port", p, <<" power inline auto">>) >>
    ELSE IF supports_poe /\ ~FieldGet(settings, "poe", FALSE)
    THEN << Line("port", p, <<" power inline never">>) >>
    ELSE <<>>

CiscoPort(p, settings) ==
    << Line("port", p, <<"interface GigabitEthernet0/", Str(p)>>) >>
    \o (CASE settings.mode = "shutdown" ->
               << Line("port", p, <<" shutdown">>) >>
          [] settings.mode = "access" ->
               << Line("port", p, <<" switchport mode access">>) >>
               \o (IF HasVlan(settings)
                   THEN << Line("port", p, <<" switchport access vlan ",
                                             Str(settings.vlan[1])>>) >>
                   ELSE <<>>)
          [] settings.mode = "trunk" ->
               << Line("port", p, <<" switchport mode trunk">>) >>
          [] OTHER -> <<>>)
    \o CiscoPoe(p, settings)
    \o << Line("port", p, <<"!">>) >>

CiscoVlanInterface(vlan_id, vlan_settings) ==
    << Line("vlan_interface", vlan_id, <<"interface Vlan", Str(vlan_id)>>) >>
    \o (IF "ip" \in DOMAIN vlan_settings /\ "mask" \in DOMAIN vlan_settings
        THEN << Line("vlan_interface", vlan_id,
                     <<" ip address ", vlan_settings.ip, " ",
                       vlan_settings.mask>>) >>
        ELSE <<>>)
    \o (IF FieldGet(vlan_settings, "shutdown", FALSE)
        THEN << Line("vlan_interface", vlan_id, <<" shutdown">>) >>
        ELSE << Line("vlan_interface", vlan_id, <<" no shutdown">>) >>)
    \o << Line("vlan_interface", vlan_id, <<"!">>) >>

CiscoStp ==
    IF stp.enabled
    THEN << Line("stp", 0, <<"spanning-tree mode ", stp.mode>>),
            Line("stp", 0, <<"spanning-tree vlan 1-4094 priority ",
                             stp.priority>>) >>
         \o (IF stp.portfast
             THEN << Line("stp", 0, <<"spanning-tree portfast default">>) >>
             ELSE <<>>)
         \o (IF stp.bpduguard
             THEN << Line("stp", 0,
                          <<"spanning-tree portfast bpduguard default">>) >>
             ELSE <<>>)
         \o (IF stp.loopguard
             THEN << Line("stp", 0, <<"spanning-tree loopguard default">>) >>
             ELSE <<>>)
    ELSE << Line("stp", 0, <<"no spanning-tree">>) >>

CiscoDhcpSnooping ==
    << Line("dhcp_snooping", 0, <<"ip dhcp snooping">>),
       Line("dhcp_snooping", 0, <<"ip dhcp snooping vlan all">>) >>

CiscoSnmp ==
    IF snmp.enabled
    THEN << Line("snmp", 0, <<"snmp-server community ", snmp.community,
                              " RO">>) >>
         \o (IF snmp.version # ""
             THEN << Line("snmp", 0, <<"snmp-server enable traps">>) >>
             ELSE <<>>)
         \o (IF snmp.location # ""
             THEN << Line("snmp", 0, <<"snmp-server location ",
                                       snmp.location>>) >>
             ELSE <<>>)
         \o (IF snmp.contact # ""
             THEN << Line("snmp", 0, <<"snmp-server contact ",
                                       snmp.contact>>) >>
             ELSE <<>>)
    ELSE <<>>

CiscoSshUser(user) ==
    Line("ssh", 0, <<"username ", user.login, " privilege ",
                     Str(user.privilege),
                     " secret ", user.password>>)

CiscoSsh ==
    IF ssh.enabled
    THEN << Line("ssh", 0, <<"ip ssh version ", ssh.version>>),
            Line("ssh", 0, <<"ip ssh time-out ", ssh.timeout>>),
            Line("ssh", 0, <<"ip ssh authentication-retries ",
                             ssh.auth_retries>>),
            Line("ssh", 0, <<"line vty 0 15">>),
            Line("ssh", 0, <<" transport input ssh">>),
            Line("ssh", 0, IF ~ssh.key_auth THEN <<" login local">>
                                            ELSE <<" login">>) >>
         \o [i \in DOMAIN ssh_users |-> CiscoSshUser(ssh_users[i])]
    ELSE <<>>

RenderCisco ==
    << Line("preamble", 0, <<"enable">>),
       Line("preamble", 0, <<"configure terminal">>),
       Line("hostname", 0, <<"hostname ">> \o hostname) >>
    \o Flatten([i \in DOMAIN vlans |-> CiscoVlan(vlans[i][1], vlans[i][2])])
    \o Flatten([i \in DOMAIN ports |-> CiscoPort(ports[i][1], ports[i][2])])
    \o Flatten([i \in DOMAIN vlan_interfaces |->
                   CiscoVlanInterface(vlan_interfaces[i][1],
                                      vlan_interfaces[i][2])])
    \o DefaultCommands
    \o CiscoStp
    \o CiscoDhcpSnooping
    \o CiscoSnmp
    \o CiscoSsh

\* JoinWith that keeps the first text only
JoinWith_FirstOnly(sep, texts) ==
    IF Len(texts) = 0 THEN <<>> ELSE <<Head(texts)>>

\* sep.join(texts)
RECURSIVE JoinWith(_, _)
JoinWith(sep, texts) ==
    IF Len(texts) = 0 THEN <<>>
    ELSE IF Len(texts) = 1 THEN <<Head(texts)>>
    ELSE <<Head(texts), sep>> \o JoinWith(sep, Tail(texts))

\* ---- hp
HpVlan(vlan_id, vlan_name) ==
    << Line("vlan", vlan_id, <<"vlan ", Str(vlan_id)>>),
       Line("vlan", vlan_id, <<" name ", vlan_name>>),
       Line("vlan", vlan_id, <<"exit">>) >>

\* HpPoe that does not ask whether the switch supports PoE
HpPoe_Ungated(p, settings) ==
    IF FieldGet(settings, "poe", FALSE)
    THEN << Line("port", p, <<" poe enable">>) >>
    ELSE << Line("port", p, <<" poe disable">>) >>

HpPoe(p, settings) ==
    IF supports_poe /\ FieldGet(settings, "poe", FALSE)
    THEN << Line("port", p, <<" poe enable">>) >>
    ELSE IF supports_poe /\ ~FieldGet(settings, "poe", FALSE)
    THEN << Line("port", p, <<" poe disable">>) >>
    ELSE <<>>

HpPort_UntaggedDefault(p, settings) ==
    << Line("port", p, <<"interface ", Str(p)>>) >>
    \o (CASE settings.mode = "shutdown" ->
               << Line("port", p, <<" disable">>) >>
          [] settings.mode = "access" ->
               IF HasVlan(settings)
               THEN << Line("port", p, <<" untagged vlan ",
                                         Str(settings.vlan[1])>>) >>
               ELSE << Line("port", p, <<" untagged vlan ", "1">>) >>
          [] settings.mode = "trunk" ->
               << Line("port", p,
                       <<" tagged vlan ">>
                       \o JoinWith(",", [i \in DOMAIN vlans |->
                                            Str(vlans[i][1])])) >>
          [] OTHER -> <<>>)
    \o HpPoe(p, settings)
    \o << Line("port", p, <<"exit">>) >>

HpPort(p, settings) ==
    << Line("port", p, <<"interface ", Str(p)>>) >>
    \o (CASE settings.mode = "shutdown" ->
               << Line("port", p, <<" disable">>) >>
          [] settings.mode = "access" ->
               IF HasVlan(settings)
               THEN << Line("port", p, <<" untagged vlan ",
                                         Str(settings.vlan[1])>>) >>
               ELSE <<>>
          [] settings.mode = "trunk" ->
               << Line("port", p,
                       <<" tagged vlan ">>
                       \o JoinWith(",", [i \in DOMAIN vlans |->
                                            Str(vlans[i][1])])) >>
          [] OTHER -> <<>>)
    \o HpPoe(p, settings)
    \o << Line("port", p, <<"exit">>) >>

HpVlanInterface(vlan_id, vlan_settings) ==
    << Line("vlan_interface", vlan_id, <<"vlan ", Str(vlan_id)>>) >>
    \o (IF "ip" \in DOMAIN vlan_settings /\ "mask" \in DOMAIN vlan_settings
        THEN << Line("vlan_interface", vlan_id,
                     <<" ip address ", vlan_settings.ip, " ",
                       vlan_settings.mask>>) >>
        ELSE <<>>)
    \o << Line("vlan_interface", vlan_id, <<"exit">>) >>

\* RenderHp with the port blocks ahead of the VLAN blocks
RenderHp_PortsFirst ==
    << Line("preamble", 0, <<"configure">>),
       Line("hostname", 0, <<"hostname ">> \o hostname) >>
    \o Flatten([i \in DOMAIN ports |-> HpPort(ports[i][1], ports[i][2])])
    \o Flatten([i \in DOMAIN vlans |-> HpVlan(vlans[i][1], vlans[i][2])])
    \o Flatten([i \in DOMAIN vlan_interfaces |->
                   HpVlanInterface(vlan_interfaces[i][1],
                                   vlan_interfaces[i][2])])
    \o DefaultCommands

RenderHp ==
    << Line("preamble", 0, <<"configure">>),
       Line("hostname", 0, <<"hostname ">> \o hostname) >>
    \o Flatten([i \in DOMAIN vlans |-> HpVlan(vlans[i][1], vlans[i][2])])
    \o Flatten([i \in DOMAIN ports |-> HpPort(ports[i][1], ports[i][2])])
    \o Flatten([i \in DOMAIN vlan_interfaces |->
                   HpVlanInterface(vlan_interfaces[i][1],
                                   vlan_interfaces[i][2])])
    \o DefaultCommands

\* ---- juniper
JuniperVlan(vlan_id, vlan_name) ==
    << Line("vlan", vlan_id,
            <<"set vlans ", vlan_name, " vlan-id ", Str(vlan_id)>>) >>

JuniperPoe(p, settings) ==
    LET interface_name == <<"ge-0/0/", Str(p)>>
    IN  IF supports_poe /\ FieldGet(settings, "poe", FALSE)
        THEN << Line("port", p, <<"set poe interface ">>
                                \o interface_name \o <<" enable">>) >>
        ELSE IF supports_poe /\ ~FieldGet(settings, "poe", FALSE)
        THEN << Line("port", p, <<"set poe interface ">>
                                \o interface_name \o <<" disable">>) >>
        ELSE <<>>

JuniperPort(p, settings) ==
    LET interface_name == <<"ge-0/0/", Str(p)>>
        switching ==
            <<"set interfaces ">> \o interface_name
            \o <<" unit 0 family ethernet-switching ">>
    IN  (CASE settings.mode = "shutdown" ->
               << Line("port", p, <<"set interfaces ">> \o interface_name
                                  \o <<" disable">>) >>
           [] settings.mode = "access" ->
               IF HasVlan(settings)
               THEN << Line("port", p, switching \o <<"port-mode access">>),
                       Line("port", p,
                            switching
                            \o <<"vlan members ",
                                 DictGet(vlans, settings.vlan[1], "")>>) >>
               ELSE <<>>
           [] settings.mode = "trunk" ->
               << Line("port", p, switching \o <<"port-mode trunk">>) >>
               \o [i \in DOMAIN vlans |->
                      Line("port", p,
                           switching \o <<"vlan members ", vlans[i][2]>>)]
           [] OTHER -> <<>>)
        \o JuniperPoe(p, settings)

JuniperVlanInterface(vlan_id, vlan_settings) ==
    LET vlan_name == IF HasKey(vlans, vlan_id)
                     THEN <<DictGet(vlans, vlan_id, "")>>
                     ELSE <<"vlan", Str(vlan_id)>>
    IN  IF "ip" \in DOMAIN vlan_settings /\ "mask" \in DOMAIN vlan_settings
        THEN << Line("vlan_interface", vlan_id,
                     <<"set interfaces irb unit ", Str(vlan_id),
                       " family inet address ", vlan_settings.ip, "/",
                       vlan_settings.mask>>),
                Line("vlan_interface", vlan_id,
                     <<"set vlans ">> \o vlan_name
                     \o <<" l3-interface irb.", Str(vlan_id)>>) >>
        ELSE <<>>

RenderJuniper ==
    << Line("preamble", 0, <<"configure">>),
       Line("hostname", 0, <<"set system host-name ">> \o hostname) >>
    \o Flatten([i \in DOMAIN vlans |-> JuniperVlan(vlans[i][1], vlans[i][2])])
    \o Flatten([i \in DOMAIN ports |->
                   JuniperPort(ports[i][1], ports[i][2])])
    \o Flatten([i \in DOMAIN vlan_interfaces |->
                   JuniperVlanInterface(vlan_interfaces[i][1],
                                        vlan_interfaces[i][2])])
    \o DefaultCommands

\* ---- aruba
ArubaVlan(vlan_id, vlan_name) ==
    << Line("vlan", vlan_id, <<"vlan ", Str(vlan_id)>>),
       Line("vlan", vlan_id, <<" name ", vlan_name>>),
       Line("vlan", vlan_id, <<"exit">>) >>

ArubaPoe(p, settings) ==
    IF supports_poe /\ FieldGet(settings, "poe", FALSE)
    THEN << Line("port", p, <<" poe-max-power 30">>) >>
    ELSE IF supports_poe /\ ~FieldGet(settings, "poe", FALSE)
    THEN << Line("port", p, <<" no poe">>) >>
    ELSE <<>>

ArubaPort(p, settings) ==
    << Line("port", p, <<"interface ", Str(p)>>) >>
    \o (CASE settings.mode = "shutdown" ->
               << Line("port", p, <<" disable">>) >>
          [] settings.mode = "access" ->
               IF HasVlan(settings)
               THEN << Line("port", p, <<" vlan access ",
                                         Str(settings.vlan[1])>>) >>
               ELSE <<>>
          [] settings.mode = "trunk" ->
               << Line("port", p, <<" trunk">>) >>
               \o [i \in DOMAIN vlans |->
                      Line("port", p, <<" trunk allowed vlan ",
                                        Str(vlans[i][1])>>)]
          [] OTHER -> <<>>)
    \o ArubaPoe(p, settings)
    \o << Line("port", p, <<"exit">>) >>

ArubaVlanInterface(vlan_id, vlan_settings) ==
    << Line("vlan_interface", vlan_id, <<"vlan ", Str(vlan_id)>>) >>
    \o (IF "ip" \in DOMAIN vlan_settings /\ "mask" \in DOMAIN vlan_settings
        THEN << Line("vlan_interface", vlan_id,
                     <<" ip address ", vlan_settings.ip, " ",
                       vlan_settings.mask>>) >>
        ELSE <<>>)
    \o << Line("vlan_interface", vlan_id, <<"exit">>) >>

\* RenderAruba that also renders the SNMP community
RenderAruba_WithSnmp ==
    << Line("preamble", 0, <<"configure">>),
       Line("hostname", 0, <<"hostname ">> \o hostname) >>
    \o Flatten([i \in DOMAIN vlans |-> ArubaVlan(vlans[i][1], vlans[i][2])])
    \o Flatten([i \in DOMAIN ports |-> ArubaPort(ports[i][1], ports[i][2])])
    \o Flatten([i \in DOMAIN vlan_interfaces |->
                   ArubaVlanInterface(vlan_interfaces[i][1],
                                      vlan_interfaces[i][2])])
    \o (IF snmp.enabled
        THEN << Line("snmp", 0, <<"snmp-server community ", snmp.community>>) >>
        ELSE <<>>)
    \o DefaultCommands

RenderAruba ==
    << Line("preamble", 0, <<"configure">>),
       Line("hostname", 0, <<"hostname ">> \o hostname) >>
    \o Flatten([i \in DOMAIN vlans |-> ArubaVlan(vlans[i][1], vlans[i][2])])
    \o Flatten([i \in DOMAIN ports |-> ArubaPort(ports[i][1], ports[i][2])])
    \o Flatten([i \in DOMAIN vlan_interfaces |->
                   ArubaVlanInterface(vlan_interfaces[i][1],
                                      vlan_interfaces[i][2])])
    \o DefaultCommands

\* ---- alcatel
AlcatelVlan(vlan_id, vlan_name) ==
    << Line("vlan", vlan_id, <<"vlan ", Str(vlan_id)>>),
       Line("vlan", vlan_id, <<" name \"", vlan_name, "\"">>),
       Line("vlan", vlan_id, <<" exit">>) >>

AlcatelPoe(p, settings) ==
    IF supports_poe /\ FieldGet(settings, "poe", FALSE)
    THEN << Line("port", p, <<" power over-ethernet admin-state enable">>),
            Line("port", p, <<" power over-ethernet priority high">>) >>
    ELSE IF supports_poe /\ ~FieldGet(settings, "poe", FALSE)
    THEN << Line("port", p, <<" power over-ethernet admin-state disable">>) >>
    ELSE <<>>

AlcatelPort(p, settings) ==
    << Line("port", p, <<"interfaces port ", "1/1/", Str(p)>>) >>
    \o (IF settings.mode = "shutdown"
        THEN << Line("port", p, <<" admin-state disable">>) >>
        ELSE << Line("port", p, <<" admin-state enable">>) >>)
    \o (CASE settings.mode = "access" ->
               IF HasVlan(settings)
               THEN << Line("port", p, <<" vlan ", Str(settings.vlan[1]),
                                         " port default">>) >>
               ELSE <<>>
          [] settings.mode = "trunk" ->
               << Line("port", p,
                       <<" spanning-tree auto-edge-port disable">>) >>
               \o [i \in DOMAIN vlans |->
                      Line("port", p, <<" vlan ", Str(vlans[i][1]),
                                        " port">>)]
          [] OTHER -> <<>>)
    \o AlcatelPoe(p, settings)
    \o << Line("port", p, <<" exit">>) >>

AlcatelVlanInterface(vlan_id, vlan_settings) ==
    << Line("vlan_interface", vlan_id, <<"vlan ", Str(vlan_id)>>) >>
    \o (IF "ip" \in DOMAIN vlan_settings /\ "mask" \in DOMAIN vlan_settings
        THEN << Line("vlan_interface", vlan_id, <<" router interface">>),
                Line("vlan_interface", vlan_id,
                     <<" address ", vlan_settings.ip, " mask ",
                       vlan_settings.mask>>),
                Line("vlan_interface", vlan_id,
                     IF FieldGet(vlan_settings, "shutdown", FALSE)
                     THEN <<" admin-state disable">>
                     ELSE <<" admin-state enable">>) >>
             \o (IF "description" \in DOMAIN vlan_settings
                    /\ vlan_settings.description # ""
                 THEN << Line("vlan_interface", vlan_id,
                              <<" description \"", vlan_settings.description,
                                "\"">>) >>
                 ELSE <<>>)
             \o << Line("vlan_interface", vlan_id, <<" exit">>) >>
        ELSE <<>>)
    \o << Line("vlan_interface", vlan_id, <<" exit">>) >>

AlcatelSnmp ==
    IF snmp.enabled
    THEN << Line("snmp", 0, <<"snmp community map ", snmp.community,
                              " user \"admin\" on">>) >>
         \o (IF snmp.location # ""
             THEN << Line("snmp", 0, <<"snmp system location \"",
                                       snmp.location, "\"">>) >>
             ELSE <<>>)
         \o (IF snmp.contact # ""
             THEN << Line("snmp", 0, <<"snmp system contact \"",
                                       snmp.contact, "\"">>) >>
             ELSE <<>>)
    ELSE <<>>

AlcatelSsh ==
    IF ssh.enabled
    THEN << Line("ssh", 0, <<"ip service ssh">>),
            Line("ssh", 0, <<"ip service ssh version v", ssh.version>>),
            Line("ssh", 0, <<"ip service ssh timeout ", ssh.timeout>>) >>
    ELSE << Line("ssh", 0, <<"no ip service ssh">>) >>

\* mode_map.get(self.stp_mode, "rstp")
AlcatelStpMode(mode) ==
    CASE mode = "rapid-pvst" -> "rstp"
      [] mode = "pvst" -> "flat"
      [] mode = "mst" -> "mstp"
      [] OTHER -> "rstp"

AlcatelStp ==
    IF stp.enabled
    THEN << Line("stp", 0, <<"spanning-tree admin-state enable">>),
            Line("stp", 0, <<"spanning-tree mode ",
                             AlcatelStpMode(stp.mode)>>),
            Line("stp", 0, <<"spanning-tree priority ", stp.priority>>) >>
         \o (IF stp.portfast
             THEN << Line("stp", 0,
                          <<"spanning-tree auto-edge-port enable">>) >>
             ELSE <<>>)
         \o (IF stp.bpduguard
             THEN << Line("stp", 0, <<"spanning-tree bpdu-guard enable">>) >>
             ELSE <<>>)
    ELSE << Line("stp", 0, <<"spanning-tree admin-state disable">>) >>

RenderAlcatel ==
    << Line("preamble", 0, <<"configure terminal">>),
       Line("hostname", 0, <<"system name ">> \o hostname) >>
    \o Flatten([i \in DOMAIN vlans |-> AlcatelVlan(vlans[i][1], vlans[i][2])])
    \o Flatten([i \in DOMAIN ports |->
                   AlcatelPort(ports[i][1], ports[i][2])])
    \o Flatten([i \in DOMAIN vlan_interfaces |->
                   AlcatelVlanInterface(vlan_interfaces[i][1],
                                        vlan_interfaces[i][2])])
    \o AlcatelSnmp
    \o AlcatelSsh
    \o AlcatelStp
    \o DefaultCommands

\* Dispatch that compares the brand as it is spelled
Dispatch_CaseSensitive ==
    CASE brand = <<"c", "i", "s", "c", "o">> -> "cisco"
      [] brand = <<"h", "p">> -> "hp"
      [] brand = <<"j", "u", "n", "i", "p", "e", "r">> -> "juniper"
      [] brand = <<"a", "r", "u", "b", "a">> -> "aruba"
      [] brand = <<"a", "l", "c", "a", "t", "e", "l">> -> "alcatel"
      [] OTHER -> "none"

\* ---- the dispatch on self.brand.lower()
Dispatch ==
    LET b == Lower(brand)
    IN  CASE b = <<"c", "i", "s", "c", "o">> -> "cisco"
          [] b = <<"h", "p">> -> "hp"
          [] b = <<"j", "u", "n", "i", "p", "e", "r">> -> "juniper"
          [] b = <<"a", "r", "u", "b", "a">> -> "aruba"
          [] b = <<"a", "l", "c", "a", "t", "e", "l">> -> "alcatel"
          [] OTHER -> "none"

\* the list "config" at the end of the branch taken
Render(branch) ==
    CASE branch = "cisco" -> RenderCisco
      [] branch = "hp" -> RenderHp
      [] branch = "juniper" -> RenderJuniper
      [] branch = "aruba" -> RenderAruba
      [] branch = "alcatel" -> RenderAlcatel
      [] OTHER -> <<>>

\* the subscripts that raise KeyError: settings['mode'] in every port loop,
\* user['login'], user['privilege'], user['password'] in the cisco SSH block
MissingKey(branch) ==
    \/ /\ branch # "none"
       /\ \E i \in DOMAIN ports : "mode" \notin DOMAIN ports[i][2]
    \/ /\ branch = "cisco"
       /\ ssh.enabled
       /\ \E i \in DOMAIN ssh_users :
             ~({"login", "privilege", "password"} \subseteq DOMAIN ssh_users[i])

\* "\n".join(config)
RECURSIVE JoinLines(_)
JoinLines(texts) ==
    IF Len(texts) = 0 THEN <<>>
    ELSE IF Len(texts) = 1 THEN Head(texts)
    ELSE Head(texts) \o <<"\n">> \o JoinLines(Tail(texts))

\* GenerateConfig that empties the port map it has rendered
\* what a generate_config call on the present model gives its caller: the
\* exception it raises, or the list "config" whose join it returns
Outcome ==
    IF MissingKey(Dispatch)
    THEN <<"KeyError", <<>>>>
    ELSE <<"none", Render(Dispatch)>>

GenerateConfig_ConsumesPorts ==
    /\ calls' = IF calls = 0 THEN 1 ELSE 2
    /\ renderer' = Dispatch
    /\ IF MissingKey(Dispatch)
       THEN /\ gen_error' = "KeyError"
            /\ config' = <<>>
            /\ generated' = <<>>
       ELSE /\ gen_error' = "none"
            /\ config' = Render(Dispatch)
            /\ generated' = JoinLines([i \in DOMAIN config' |-> config'[i].text])
    /\ ports' = <<>>
    /\ UNCHANGED <<switchFixed, hostname, vlans, vlan_interfaces, snmp, ssh,
                   ssh_users, stp, ops, fileVars, varsSerial, varsTftp>>
    /\ last_op' = "generate_config"
    /\ opened' = "none"
    /\ load_error' = "none"

\* generate_config(): the text is returned, or the KeyError leaves the call
GenerateConfig ==
    /\ calls' = IF calls = 0 THEN 1 ELSE 2
    /\ renderer' = Dispatch
    /\ IF MissingKey(Dispatch)
       THEN /\ gen_error' = "KeyError"
            /\ config' = <<>>
            /\ generated' = <<>>
       ELSE /\ gen_error' = "none"
            /\ config' = Render(Dispatch)
            /\ generated' = JoinLines([i \in DOMAIN config' |-> config'[i].text])
    /\ last_op' = "generate_config"
    /\ opened' = "none"
    /\ load_error' = "none"
    /\ UNCHANGED <<switchFixed, switchModel, ops, fileVars, varsSerial,
                   varsTftp>>

(***************************************************************************)
(* The callers of the Switch: mutators, bulk replacements, load_profile    *)
(***************************************************************************)
\* the VLAN ids add_vlan and set_vlan_interface are called with: two of
\* 1..4094 and one beyond
VlanIds == {10, 4094, 4095}
VlanNames == {"users", "voice", "lab"}

\* the (vlan_id, vlan_name) arguments of add_vlan
VlanArgs ==
    { <<10, "users">>, <<10, "voice">>, <<4094, "voice">>, <<4095, "lab">> }
PortNumbers == {1, 2}

\* the (mode, vlan, poe_enabled) arguments of set_port_config
PortArgs ==
    { <<"access", Some(10), TRUE>>,
      <<"access", None, FALSE>>,
      <<"trunk", None, FALSE>>,
      <<"shutdown", None, FALSE>> }

\* what VlanInterfaceDialog.get_configs() holds for one VLAN
InterfaceConfigs ==
    { [ip |-> "10.0.0.1", mask |-> "255.255.255.0", shutdown |-> FALSE,
       description |-> "", dhcp_enabled |-> FALSE],
      [ip |-> "10.0.0.1", mask |-> "255.255.255.0", shutdown |-> TRUE,
       description |-> "uplink", dhcp_enabled |-> FALSE] }

\* the keyword arguments of set_vlan_interface
InterfaceKwargs ==
    { [ip |-> "10.0.0.1", mask |-> "255.255.255.0"],
      [description |-> "uplink"],
      [ip |-> "10.0.0.1", mask |-> "255.255.255.0", shutdown |-> FALSE,
       description |-> "", dhcp_enabled |-> TRUE] }

\* the (vlan_id, kwargs) arguments of set_vlan_interface
InterfaceArgs ==
    {<<10, kwargs>> : kwargs \in InterfaceKwargs}
    \cup {<<4095, [ip |-> "10.0.0.1", mask |-> "255.255.255.0"]>>}

\* the arguments set_snmp, set_ssh and set_spanning_tree are called with:
\* all of them, or "enabled" alone
SnmpArgs ==
    { [enabled |-> TRUE, community |-> "public", version |-> "2c",
       location |-> "rack", contact |-> "http://noc"],
      [enabled |-> FALSE] }

SshArgs ==
    { [enabled |-> TRUE, version |-> "2", timeout |-> "120",
       auth_retries |-> "3", key_auth |-> FALSE],
      [enabled |-> FALSE] }

StpArgs ==
    { [enabled |-> TRUE, mode |-> "mst", priority |-> "4096",
       portfast |-> FALSE, bpduguard |-> TRUE, loopguard |-> TRUE],
      [enabled |-> FALSE] }

\* what the VLAN dialog hands over: a non-empty dict of VLANs
DialogVlans ==
    { << <<10, "users">>, <<4094, "voice">> >>,
      << <<4094, "voice">>, <<10, "users">> >> }

\* what the SSH user dialog hands over
DialogUsers ==
    { << [login |-> "admin", password |-> "secret", privilege |-> 15] >> }

Mutation_DropsPoe ==
    /\ ops < MaxOps
    /\ ops' = ops + 1
    /\ calls' = 0
    /\ renderer' = "none"
    /\ config' = <<>>
    /\ generated' = <<>>
    /\ gen_error' = "none"
    /\ supports_poe' = FALSE
    /\ UNCHANGED <<brand, template, fileVars, varsSerial, varsTftp>>

\* one mutation more: what earlier generate_config calls showed is forgotten
Mutation ==
    /\ ops < MaxOps
    /\ ops' = ops + 1
    /\ calls' = 0
    /\ renderer' = "none"
    /\ config' = <<>>
    /\ generated' = <<>>
    /\ gen_error' = "none"
    /\ UNCHANGED <<switchFixed, fileVars, varsSerial, varsTftp>>

\* a mutation by the method "name", which is not load_profile
Mutator(name) ==
    /\ Mutation
    /\ last_op' = name
    /\ opened' = "none"
    /\ load_error' = "none"

\* add_vlan(vlan_id, vlan_name)
AddVlan ==
    /\ Mutator("add_vlan")
    /\ \E vlan_id \in VlanIds, vlan_name \in VlanNames :
          /\ <<vlan_id, vlan_name>> \in VlanArgs
          /\ vlans' = DictSet(vlans, vlan_id, vlan_name)
    /\ UNCHANGED <<hostname, ports, vlan_interfaces, snmp, ssh, ssh_users, stp>>

\* set_port_config(port_number, mode, vlan, poe_enabled)
SetPortConfig ==
    /\ Mutator("set_port_config")
    /\ \E port_number \in PortNumbers, a \in PortArgs :
          ports' = DictSet(ports, port_number,
                           [mode |-> a[1], vlan |-> a[2], poe |-> a[3]])
    /\ UNCHANGED <<hostname, vlans, vlan_interfaces, snmp, ssh, ssh_users, stp>>

SetVlanInterface_Merges ==
    /\ Mutator("set_vlan_interface")
    /\ \E vlan_id \in VlanIds, kwargs \in InterfaceKwargs :
          LET old == DictGet(vlan_interfaces, vlan_id, EmptyDict)
              merged == [k \in DOMAIN old \cup DOMAIN kwargs |->
                            IF k \in DOMAIN kwargs THEN kwargs[k] ELSE old[k]]
          IN  /\ <<vlan_id, kwargs>> \in InterfaceArgs
              /\ vlan_interfaces' = DictSet(vlan_interfaces, vlan_id, merged)
    /\ UNCHANGED <<hostname, vlans, ports, snmp, ssh, ssh_users, stp>>

\* set_vlan_interface(vlan_id, **kwargs)
SetVlanInterface ==
    /\ Mutator("set_vlan_interface")
    /\ \E vlan_id \in VlanIds, kwargs \in InterfaceKwargs :
          /\ <<vlan_id, kwargs>> \in InterfaceArgs
          /\ vlan_interfaces' = DictSet(vlan_interfaces, vlan_id, kwargs)
    /\ UNCHANGED <<hostname, vlans, ports, snmp, ssh, ssh_users, stp>>

\* set_hostname(hostname)
SetHostname ==
    /\ Mutator("set_hostname")
    /\ hostname' = <<"core">>
    /\ UNCHANGED <<vlans, ports, vlan_interfaces, snmp, ssh, ssh_users, stp>>

\* set_snmp(enabled, community, version, location, contact)
SetSnmp ==
    /\ Mutator("set_snmp")
    /\ \E a \in SnmpArgs :
          snmp' = [enabled |-> a.enabled,
                   community |-> FieldGet(a, "community", "public"),
                   version |-> FieldGet(a, "version", "2c"),
                   location |-> FieldGet(a, "location", ""),
                   contact |-> FieldGet(a, "contact", "")]
    /\ UNCHANGED <<hostname, vlans, ports, vlan_interfaces, ssh, ssh_users, stp>>

\* set_ssh(enabled, version, timeout, auth_retries, key_auth)
SetSsh ==
    /\ Mutator("set_ssh")
    /\ \E a \in SshArgs :
          ssh' = [enabled |-> a.enabled,
                  version |-> FieldGet(a, "version", "2"),
                  timeout |-> FieldGet(a, "timeout", "60"),
                  auth_retries |-> FieldGet(a, "auth_retries", "3"),
                  key_auth |-> FieldGet(a, "key_auth", FALSE)]
    /\ UNCHANGED <<hostname, vlans, ports, vlan_interfaces, snmp, ssh_users, stp>>

\* set_spanning_tree(enabled, mode, priority, portfast, bpduguard, loopguard)
SetSpanningTree ==
    /\ Mutator("set_spanning_tree")
    /\ \E a \in StpArgs :
          stp' = [enabled |-> a.enabled,
                  mode |-> FieldGet(a, "mode", "rapid-pvst"),
                  priority |-> FieldGet(a, "priority", "32768"),
                  portfast |-> FieldGet(a, "portfast", TRUE),
                  bpduguard |-> FieldGet(a, "bpduguard", TRUE),
                  loopguard |-> FieldGet(a, "loopguard", FALSE)]
    /\ UNCHANGED <<hostname, vlans, ports, vlan_interfaces, snmp, ssh, ssh_users>>

\* self.switch.vlans = dialog.vlans.copy()
ReplaceVlans ==
    /\ Mutator("replace_vlans")
    /\ vlans' \in DialogVlans
    /\ UNCHANGED <<hostname, ports, vlan_interfaces, snmp, ssh, ssh_users, stp>>

\* reset_all_ports(): self.switch.ports = {}
ResetAllPorts ==
    /\ Mutator("reset_all_ports")
    /\ ports' = <<>>
    /\ UNCHANGED <<hostname, vlans, vlan_interfaces, snmp, ssh, ssh_users, stp>>

\* self.switch.vlan_interfaces = dialog.get_configs(): one entry per VLAN
\* of the model, in the order of the VLAN map
ReplaceVlanInterfaces ==
    /\ Mutator("replace_vlan_interfaces")
    /\ \E c \in InterfaceConfigs :
          vlan_interfaces' = [i \in DOMAIN vlans |-> <<vlans[i][1], c>>]
    /\ UNCHANGED <<hostname, vlans, ports, snmp, ssh, ssh_users, stp>>

\* self.switch.ssh_users = dialog.ssh_users.copy()
ReplaceSshUsers ==
    /\ Mutator("replace_ssh_users")
    /\ ssh_users' \in DialogUsers
    /\ UNCHANGED <<hostname, vlans, ports, vlan_interfaces, snmp, ssh, stp>>

\* int(k), k the decimal digits of a JSON object key
DigitValue(c) ==
    CASE c = "0" -> 0 [] c = "1" -> 1 [] c = "2" -> 2 [] c = "3" -> 3
      [] c = "4" -> 4 [] c = "5" -> 5 [] c = "6" -> 6 [] c = "7" -> 7
      [] c = "8" -> 8 [] c = "9" -> 9

RECURSIVE IntOf(_)
IntOf(digits) ==
    IF Len(digits) = 0 THEN 0
    ELSE 10 * IntOf(SubSeq(digits, 1, Len(digits) - 1))
         + DigitValue(digits[Len(digits)])

\* {int(k): v for k, v in raw.items()}
RECURSIVE IntKeyed(_, _)
IntKeyed(raw, acc) ==
    IF Len(raw) = 0 THEN acc
    ELSE IntKeyed(Tail(raw), DictSet(acc, IntOf(Head(raw)[1]), Head(raw)[2]))

\* a profile as save_profile writes it
SavedProfile ==
    [ vlans |-> << << <<"1", "0">>, "users" >>,
                   << <<"4", "0", "9", "4">>, "voice" >> >>,
      ports |-> << << <<"2">>, [mode |-> "trunk", vlan |-> None,
                                poe |-> TRUE] >>,
                   << <<"1">>, [mode |-> "access", vlan |-> Some(10),
                                poe |-> FALSE] >> >>,
      vlan_interfaces |->
          << << <<"1", "0">>,
                [ip |-> "10.0.0.1", mask |-> "255.255.255.0",
                 shutdown |-> FALSE, description |-> "",
                 dhcp_enabled |-> FALSE] >> >>,
      snmp |-> [enabled |-> TRUE, community |-> "public", version |-> "2c",
                location |-> "rack", contact |-> "noc"],
      ssh |-> [enabled |-> TRUE, version |-> "2", timeout |-> "60",
               retries |-> "3", key |-> FALSE,
               users |-> << [login |-> "admin", password |-> "secret",
                             privilege |-> 15] >>],
      stp |-> [enabled |-> TRUE, mode |-> "rapid-pvst",
               priority |-> "32768", portfast |-> TRUE, bpduguard |-> TRUE,
               loopguard |-> FALSE] ]

\* profiles written by hand: a port without "poe", a port without "mode",
\* an SSH user without "password"
ProfileNoPoe ==
    [ vlans |-> << << <<"1", "0">>, "users" >> >>,
      ports |-> << << <<"1">>, [mode |-> "access", vlan |-> Some(10)] >> >> ]

ProfileNoMode ==
    [ ports |-> << << <<"1">>, [vlan |-> Some(10), poe |-> TRUE] >> >> ]

ProfileUserNoPassword ==
    [ ssh |-> [enabled |-> TRUE, version |-> "2", timeout |-> "60",
               retries |-> "3", key |-> FALSE,
               users |-> << [login |-> "admin", privilege |-> 15] >>] ]

\* profiles load_profile cannot take whole: a VLAN id outside 1..4094, a
\* port key that is no integer behind a good "vlans" section, a "snmp"
\* section that is a JSON array
ProfileVlanOutOfRange ==
    [ vlans |-> << << <<"4", "0", "9", "5">>, "lab" >> >> ]

ProfileBadPortKey ==
    [ vlans |-> << << <<"1", "0">>, "users" >> >>,
      ports |-> << << <<"x">>, [mode |-> "access", vlan |-> Some(10),
                                poe |-> FALSE] >> >> ]

\* a JSON array is held as the record [array |-> its items]
ProfileSnmpArray ==
    [ vlans |-> << << <<"1", "0">>, "users" >> >>,
      snmp |-> [array |-> <<"public">>] ]

Profiles ==
    { SavedProfile, ProfileNoPoe, ProfileNoMode, ProfileUserNoPassword,
      ProfileVlanOutOfRange, ProfileBadPortKey, ProfileSnmpArray }

\* a file: the JSON document its text spells once the comments are gone,
\* or a text that is not JSON
File(doc) == [wellformed |-> TRUE, doc |-> doc]
Garbage == [wellformed |-> FALSE, doc |-> EmptyDict]

\* the files of the user, written by hand or kept from elsewhere
GivenFiles == {File(doc) : doc \in Profiles} \cup {Garbage}

\* str(k) of json.dump for an int key: the decimal digits of k
DigitChar(d) ==
    CASE d = 0 -> "0" [] d = 1 -> "1" [] d = 2 -> "2" [] d = 3 -> "3"
      [] d = 4 -> "4" [] d = 5 -> "5" [] d = 6 -> "6" [] d = 7 -> "7"
      [] d = 8 -> "8" [] d = 9 -> "9"

RECURSIVE Digits(_)
Digits(n) ==
    IF n < 10 THEN <<DigitChar(n)>>
    ELSE Digits(n \div 10) \o <<DigitChar(n % 10)>>

\* a dict with int keys as json.dump writes it: same items, same order
StrKeyed(d) == [i \in DOMAIN d |-> <<Digits(d[i][1]), d[i][2]>>]

\* the dict "prof" of save_profile
Dump ==
    [ vlans |-> StrKeyed(vlans),
      ports |-> StrKeyed(ports),
      vlan_interfaces |-> StrKeyed(vlan_interfaces),
      snmp |-> [enabled |-> snmp.enabled, community |-> snmp.community,
                version |-> snmp.version, location |-> snmp.location,
                contact |-> snmp.contact],
      ssh |-> [enabled |-> ssh.enabled, version |-> ssh.version,
               timeout |-> ssh.timeout, retries |-> ssh.auth_retries,
               key |-> ssh.key_auth, users |-> ssh_users],
      stp |-> [enabled |-> stp.enabled, mode |-> stp.mode,
               priority |-> stp.priority, portfast |-> stp.portfast,
               bpduguard |-> stp.bpduguard, loopguard |-> stp.loopguard] ]

\* save_profile(): json.dump(prof, f, indent=2)
SaveProfile ==
    /\ profile_file' = Some(File(Dump))
    /\ snapshot' = Some(<<vlans, ports, vlan_interfaces, snmp, ssh, ssh_users,
                          stp>>)
    /\ UNCHANGED <<switchFixed, switchModel, ops, generateLog, opLog,
                   varsSerial, varsTftp>>

\* the strings of the model in which "//" occurs
Slashed == {"http://noc"}

\* the values a dict has under the given keys
FieldValues(r, keys) == {r[k] : k \in DOMAIN r \cap keys}

ItemStrings(items, keys) ==
    UNION {FieldValues(items[i][2], keys) : i \in DOMAIN items}

\* the string values of a document
StringsOf(doc) ==
    LET vl == FieldGet(doc, "vlans", <<>>)
        po == FieldGet(doc, "ports", <<>>)
        vi == FieldGet(doc, "vlan_interfaces", <<>>)
        sn == FieldGet(doc, "snmp", EmptyDict)
        sh == FieldGet(doc, "ssh", EmptyDict)
        st == FieldGet(doc, "stp", EmptyDict)
        us == FieldGet(sh, "users", <<>>)
    IN  {vl[i][2] : i \in DOMAIN vl}
        \cup ItemStrings(po, {"mode"})
        \cup ItemStrings(vi, {"ip", "mask", "description"})
        \cup FieldValues(sn, {"community", "version", "location", "contact"})
        \cup FieldValues(sh, {"version", "timeout", "retries"})
        \cup UNION {FieldValues(us[i], {"login", "password"}) : i \in DOMAIN us}
        \cup FieldValues(st, {"mode", "priority"})

\* json.loads(re.sub(r'//.*', '', raw)) returns a document: the text is JSON
\* and no string of it holds "//". json.dump(..., indent=2) and a hand
\* written file alike keep a string on one line, so that the string loses
\* its closing quote with everything from "//" on
Parses(file) ==
    /\ file.wellformed
    /\ StringsOf(file.doc) \cap Slashed = {}

\* int(k) returns: k is a run of decimal digits
IsInt(k) ==
    /\ Len(k) > 0
    /\ \A i \in DOMAIN k :
          k[i] \in {"0", "1", "2", "3", "4", "5", "6", "7", "8", "9"}

IntKeys(raw) == \A i \in DOMAIN raw : IsInt(raw[i][1])

\* the section has .get: it is a JSON object
IsObject(section) == "array" \notin DOMAIN section

\* the statement of load_profile that raises, numbered as they run: 0 the
\* json.loads, 1..3 the three comprehensions, 4 set_snmp, 5 set_ssh,
\* 6 the ssh_users assignment, 7 set_spanning_tree; 8 when none raises
FailingStep(file) ==
    IF ~Parses(file) THEN 0
    ELSE IF ~IntKeys(FieldGet(file.doc, "vlans", <<>>)) THEN 1
    ELSE IF ~IntKeys(FieldGet(file.doc, "ports", <<>>)) THEN 2
    ELSE IF ~IntKeys(FieldGet(file.doc, "vlan_interfaces", <<>>)) THEN 3
    ELSE IF ~IsObject(FieldGet(file.doc, "snmp", EmptyDict)) THEN 4
    ELSE IF ~IsObject(FieldGet(file.doc, "ssh", EmptyDict)) THEN 5
    ELSE IF ~IsObject(FieldGet(file.doc, "stp", EmptyDict)) THEN 7
    ELSE 8

\* the exception "except Exception as e" catches
LoadError(file) ==
    CASE FailingStep(file) = 0 -> "JSONDecodeError"
      [] FailingStep(file) \in 1..3 -> "ValueError"
      [] FailingStep(file) \in 4..7 -> "AttributeError"
      [] OTHER -> "none"

\* the files getOpenFileName can return
Sources == {"given"} \cup (IF profile_file = None THEN {} ELSE {"saved"})

FilesOf(src) == IF src = "given" THEN GivenFiles ELSE {profile_file[1]}

\* load_profile(): the sections of the file replace those of the model one
\* after the other, a missing section or field taking the default of its
\* .get; the statements behind the one that raises are not run
LoadProfile ==
    /\ Mutation
    /\ last_op' = "load_profile"
    /\ \E src \in Sources : \E file \in FilesOf(src) :
          LET prof == file.doc
              fail == FailingStep(file)
              sn == FieldGet(prof, "snmp", EmptyDict)
              sh == FieldGet(prof, "ssh", EmptyDict)
              st == FieldGet(prof, "stp", EmptyDict)
          IN  /\ opened' = src
              /\ load_error' = LoadError(file)
              /\ vlans' = IF fail <= 1 THEN vlans
                          ELSE IntKeyed(FieldGet(prof, "vlans", <<>>), <<>>)
              /\ ports' = IF fail <= 2 THEN ports
                          ELSE IntKeyed(FieldGet(prof, "ports", <<>>), <<>>)
              /\ vlan_interfaces' =
                     IF fail <= 3 THEN vlan_interfaces
                     ELSE IntKeyed(FieldGet(prof, "vlan_interfaces", <<>>),
                                   <<>>)
              /\ snmp' = IF fail <= 4 THEN snmp
                         ELSE [enabled |-> FieldGet(sn, "enabled", FALSE),
                               community |-> FieldGet(sn, "community", ""),
                               version |-> FieldGet(sn, "version", ""),
                               location |-> FieldGet(sn, "location", ""),
                               contact |-> FieldGet(sn, "contact", "")]
              /\ ssh' = IF fail <= 5 THEN ssh
                        ELSE [enabled |-> FieldGet(sh, "enabled", FALSE),
                              version |-> FieldGet(sh, "version", ""),
                              timeout |-> FieldGet(sh, "timeout", ""),
                              auth_retries |-> FieldGet(sh, "retries", ""),
                              key_auth |-> FieldGet(sh, "key", FALSE)]
              /\ ssh_users' = IF fail <= 6 THEN ssh_users
                              ELSE FieldGet(sh, "users", <<>>)
              /\ stp' = IF fail <= 7 THEN stp
                        ELSE [enabled |-> FieldGet(st, "enabled", TRUE),
                              mode |-> FieldGet(st, "mode", ""),
                              priority |-> FieldGet(st, "priority", ""),
                              portfast |-> FieldGet(st, "portfast", TRUE),
                              bpduguard |-> FieldGet(st, "bpduguard", TRUE),
                              loopguard |-> FieldGet(st, "loopguard", FALSE)]
    /\ UNCHANGED hostname

NextSwitch ==
    \/ AddVlan
    \/ SetPortConfig
    \/ SetVlanInterface
    \/ SetHostname
    \/ SetSnmp
    \/ SetSsh
    \/ SetSpanningTree
    \/ ReplaceVlans
    \/ ResetAllPorts
    \/ ReplaceVlanInterfaces
    \/ ReplaceSshUsers
    \/ LoadProfile
    \/ GenerateConfig

(***************************************************************************)
(* Specifications                                                          *)
(***************************************************************************)
\* a sender nobody uses
SenderUnused ==
    /\ InitSender
    /\ ~on_progress /\ ~on_line_sent /\ ~on_completed /\ ~on_error
    /\ config_text = <<>>

\* no upload is made
TftpUnused ==
    /\ InitTftp
    /\ TFTP_AVAILABLE

\* a Switch nobody touches
SwitchUnused ==
    /\ InitSwitch
    /\ brand = <<"C", "i", "s", "c", "o">>
    /\ template = EmptyTemplate

\* one serial transfer, no upload
InitSerial == InitSender /\ TftpUnused /\ SwitchUnused
SpecSerial == InitSerial /\ [][NextSender]_vars

\* two send_configuration calls on one sender, the callbacks of
\* send_config_via_console registered
InitResend ==
    /\ InitSender
    /\ config_text \in ResendTexts
    /\ on_line_sent /\ on_completed /\ on_error /\ ~on_progress
    /\ TftpUnused
    /\ SwitchUnused
SpecResend == InitResend /\ [][NextResend]_vars

\* one upload, no serial transfer
InitUpload == InitTftp /\ SenderUnused /\ SwitchUnused
SpecTftp == InitUpload /\ [][NextUpload]_vars

\* one Switch, its callers and generate_config
InitModel == InitSwitch /\ SenderUnused /\ TftpUnused
SpecSwitch == InitModel /\ [][NextSwitch]_vars

\* save_profile and load_profile on a Switch the user has filled: each part
\* of the model is empty or as built, or what a dialog or a mutator puts there
InitFilled ==
    /\ brand = <<"C", "i", "s", "c", "o">>
    /\ template = FullTemplate
    /\ supports_poe = SupportsPoe(template)
    /\ hostname = brand \o <<"-", ModelName>>
    /\ vlans \in {<<>>, << <<4094, "voice">>, <<10, "users">> >>}
    /\ ports \in {<<>>,
                  << <<2, [mode |-> "trunk", vlan |-> None, poe |-> FALSE]>>,
                     <<1, [mode |-> "access", vlan |-> Some(10),
                           poe |-> TRUE]>> >>}
    /\ vlan_interfaces \in
           {<<>>} \cup {<< <<10, c>> >> : c \in InterfaceConfigs}
    /\ snmp \in {[enabled |-> a.enabled,
                  community |-> FieldGet(a, "community", "public"),
                  version |-> FieldGet(a, "version", "2c"),
                  location |-> FieldGet(a, "location", ""),
                  contact |-> FieldGet(a, "contact", "")] : a \in SnmpArgs}
    /\ ssh \in {[enabled |-> a.enabled,
                 version |-> FieldGet(a, "version", "2"),
                 timeout |-> FieldGet(a, "timeout", "60"),
                 auth_retries |-> FieldGet(a, "auth_retries", "3"),
                 key_auth |-> FieldGet(a, "key_auth", FALSE)] : a \in SshArgs}
    /\ ssh_users \in {<<>>} \cup DialogUsers
    /\ stp \in {[enabled |-> a.enabled,
                 mode |-> FieldGet(a, "mode", "rapid-pvst"),
                 priority |-> FieldGet(a, "priority", "32768"),
                 portfast |-> FieldGet(a, "portfast", TRUE),
                 bpduguard |-> FieldGet(a, "bpduguard", TRUE),
                 loopguard |-> FieldGet(a, "loopguard", FALSE)] : a \in StpArgs}
    /\ ops = 0
    /\ calls = 0
    /\ renderer = "none"
    /\ config = <<>>
    /\ generated = <<>>
    /\ gen_error = "none"
    /\ last_op = "init"
    /\ opened = "none"
    /\ load_error = "none"
    /\ profile_file = None
    /\ snapshot = None

NextProfile ==
    \/ SaveProfile
    \/ LoadProfile
    \/ ResetAllPorts
    \/ SetSnmp

InitProfile == InitFilled /\ SenderUnused /\ TftpUnused
SpecProfile == InitProfile /\ [][NextProfile]_vars

(***************************************************************************)
(* Properties of the serial transfer (SpecSerial)                          *)
(***************************************************************************)
\* C1 (as claimed): once cancel() has run after line k was written
\* (1 <= k < n), none of the lines k+1..n is written and on_completed is not
\* invoked, whatever the interleaving of caller and transfer thread.
C1_NoLineAfterCancel ==
    LET n == Len(SplitLines(config_text))
    IN  cancelAt \in 1..(n - 1) =>
            (Len(port) = cancelAt /\ completed_calls = 0)

\* C1 (amended): once cancel() has run after line k was written
\* (1 <= k < n), none of the lines k+2..n is written and on_completed is not
\* invoked; line k+1 is written only when the thread had already passed its
\* is_sending test for that line when cancel() ran.
C1_CancelStopsAtLineBoundary ==
    LET n == Len(SplitLines(config_text))
    IN  cancelAt \in 1..(n - 1) =>
            /\ Len(port) <= cancelAt + 1
            /\ cancelPc # "write" => Len(port) = cancelAt
            /\ completed_calls = 0
            /\ spc # "call_completed"

\* a transfer cancelled with at least two lines left has run to its end
C1_Witness ==
    /\ cancelAt \in 1..(Len(SplitLines(config_text)) - 2)
    /\ spc = "done"
    /\ raised = "none"

\* C9: the port receives the lines of the text in their order, each once and
\* each followed by CRLF, and the write of a line begins only after the
\* write, the read, the per-line callbacks and the sleep of every earlier
\* line have completed.
C9_StrictLineOrder ==
    LET text_lines == SplitLines(config_text)
        n == Len(text_lines)
    IN  /\ Len(port) <= n
        /\ \A j \in 1..Len(port) : port[j] = text_lines[j] \o <<"\r", "\n">>
        /\ \A j \in 1..Len(line_sent_calls) :
              line_sent_calls[j] = <<text_lines[j], j, n>>
        /\ \A j \in 1..Len(progress_calls) : progress_calls[j] = <<j, n>>
        /\ spc = "write" =>
              /\ Len(port) = idx - 1
              /\ reads = idx - 1
              /\ sleeps = idx - 1
              /\ on_progress => Len(progress_calls) = idx - 1
              /\ on_line_sent => Len(line_sent_calls) = idx - 1
        /\ reads <= Len(port)
        /\ sleeps <= reads
        /\ Len(port) <= sleeps + 1

\* the thread is about to write a third line after two different lines
C9_Witness ==
    /\ spc = "write"
    /\ idx = 3
    /\ Len(port) = 2
    /\ port[1] # port[2]
    /\ Len(line_sent_calls) = 2

\* C10: a transfer that ended without cancel() and without an exception has
\* written all n lines and invoked on_completed (when registered) exactly
\* once; on_completed is never invoked, nor about to be, while a line of the
\* text is unwritten.
C10_CompletedAfterAllLines ==
    LET n == Len(SplitLines(config_text))
    IN  /\ (spc = "done" /\ cancelAt = -1 /\ raised = "none") =>
              /\ Len(port) = n
              /\ completed_calls = IF on_completed THEN 1 ELSE 0
        /\ completed_calls <= 1
        /\ (completed_calls > 0 \/ spc = "call_completed") => Len(port) = n

\* an uncancelled, error-free transfer of several lines has completed
C10_Witness ==
    /\ spc = "done"
    /\ cancelAt = -1
    /\ raised = "none"
    /\ Len(port) >= 2
    /\ completed_calls = 1

\* C11: once a write or a read of the transfer thread has raised, no later
\* line is written (the port holds the lines before the failing one, and
\* the failing one when it was the read that raised), on_completed is never
\* invoked, the handler sets last_error and invokes on_error (when
\* registered) exactly once, and the thread ends in its finally block with
\* is_sending = False: the exception stays inside the thread.
C11_ExceptionEndsTransfer ==
    raised # "none" =>
        /\ spc \in {"except", "finally", "done"}
        /\ Len(port) = IF raised = "write" THEN idx - 1 ELSE idx
        /\ reads = idx - 1
        /\ completed_calls = 0
        /\ spc = "except" => (last_error = "none" /\ error_calls = 0)
        /\ spc \in {"finally", "done"} =>
              /\ last_error = raised
              /\ error_calls = IF on_error THEN 1 ELSE 0
        /\ spc = "done" => ~is_sending

\* the read of the second of three lines raised, and the thread has ended
\* after telling the registered on_error
C11_Witness ==
    /\ spc = "done"
    /\ raised = "read"
    /\ Len(lines) = 3
    /\ Len(port) = 2
    /\ on_error /\ error_calls = 1
    /\ on_completed /\ completed_calls = 0
    /\ cancelAt = -1

\* C12: once the transfer thread has terminated, the serial port opened for
\* the transfer has been closed and is_connected is False.
C12_PortClosedAfterTransfer ==
    spc = "done" => (ser = "closed" /\ ~is_connected)

\* the lines of port the first thread wrote after cancel() first ran
WrittenAfterCancel ==
    {i \in DOMAIN writer : i > cancelAt /\ writer[i] = 1}

\* C29: on one sender, whatever send_configuration and cancel calls are
\* made, at most one transfer thread is active at a time, every line of
\* the first transfer is on the port before any line of the second, and a
\* transfer cancelled while it ran writes nothing further, the one line
\* whose write had already been decided excepted
C29_OneTransferAtATime ==
    /\ ~(Active(spc) /\ Active(spc2))
    /\ \A i, j \in DOMAIN writer : i < j /\ writer[i] = 2 => writer[j] = 2
    /\ cancelAt # -1 /\ Active(cancelPc) =>
          Cardinality(WrittenAfterCancel) <= (IF cancelPc = "write" THEN 1 ELSE 0)

\* C30: with both terminal callbacks registered, a transfer that has ended
\* by writing every line or by an exception has invoked exactly one of
\* on_completed and on_error (on_error for the exception), and a transfer
\* that has ended without on_completed and without exception has left at
\* least one line unwritten, a cancel() behind the last write included.
C30_OneTerminalCallback ==
    (spc = "done" /\ on_completed /\ on_error) =>
        /\ raised # "none" => (error_calls = 1 /\ completed_calls = 0)
        /\ (raised = "none" /\ Len(port) = Len(lines)) =>
              (completed_calls = 1 /\ error_calls = 0)
        /\ (raised = "none" /\ completed_calls = 0) => Len(port) < Len(lines)

(***************************************************************************)
(* Properties of the TFTP upload (SpecTftp)                                *)
(***************************************************************************)
\* C2: a call that created the temporary directory has removed the staging
\* file and the directory when it returns, on every exit path.
C2_StagingRemovedOnReturn ==
    (upc = "returned" /\ dir_created) =>
        (temp_dir = "removed" /\ config_file = "absent")

\* C3: once the call has returned, a server thread it started is not left
\* serving UDP/69 with nobody having told its server object to stop.
C3_ServerStoppedOnReturn ==
    (upc = "returned" /\ tpc # "none") => (~listening \/ shutdown)

\* C4: the call never raises: it returns (False, message) with a non-empty
\* message for every failure, and (True, message) only when the client
\* upload completed without an exception.
C4_NeverRaises ==
    /\ upc # "raised"
    /\ upc = "returned" =>
          /\ Len(result) = 2
          /\ result[1] \in BOOLEAN
          /\ result[2] # ""
          /\ result[1] => upload = "ok"

\* C5: when the connectivity probe fails, the call returns the reachability
\* failure and no temporary directory was created, no staging file written
\* and no server thread started before that.
C5_ProbeFailureBeforeFileIO ==
    probe = "fail" =>
        /\ ~dir_created
        /\ ~file_created
        /\ tpc = "none"
        /\ upc = "returned" => result = <<FALSE, MsgUnreachable>>

\* C6: the phases of a run are entered in the order Idle,
\* ConnectivityChecked, Staged, ServerStarting, ServerReady, Uploading,
\* Succeeded or Failed, CleanedUp, none skipped forward (a failure goes to
\* Failed) and none revisited; the client upload is attempted only with the
\* staging file fully written and the server thread's success flag set.
C6_PhaseOrder ==
    LET rank(p) ==
            CASE p = "Idle" -> 0
              [] p = "ConnectivityChecked" -> 1
              [] p = "Staged" -> 2
              [] p = "ServerStarting" -> 3
              [] p = "ServerReady" -> 4
              [] p = "Uploading" -> 5
              [] p \in {"Succeeded", "Failed"} -> 6
              [] p = "CleanedUp" -> 7
        step(p, q) ==
            \/ q # "Failed" /\ rank(q) = rank(p) + 1
            \/ q = "Failed" /\ rank(p) < 6
    IN  /\ phases[1] = "Idle"
        /\ \A j \in 1..(Len(phases) - 1) : step(phases[j], phases[j + 1])
        /\ upc \in {"upload", "uploading"} =>
              (config_file = "full" /\ success)
        /\ upload # "none" =>
              /\ config_file = "full" \/ upc = "returned"
              /\ success
              /\ \E j \in 1..Len(phases) : phases[j] = "ServerReady"

\* the client upload is running, every earlier phase entered in turn
C6_Witness ==
    /\ upc = "uploading"
    /\ phases = <<"Idle", "ConnectivityChecked", "Staged", "ServerStarting",
                  "ServerReady", "Uploading">>

\* C7: a run whose probe succeeds, whose server thread begins listening
\* without error and keeps serving until stopped, and whose client upload
\* raises nothing, returns (True, message).
C7_HealthyRunSucceeds ==
    LET healthy ==
            /\ probe = "ok"
            /\ file_created
            /\ tpc \in {"listening", "set_success", "done"}
            /\ error_message = "none"
            /\ ~listen_early
            /\ upload \notin {"tftp_error", "error"}
    IN  (upc = "returned" /\ healthy) => result[1] = TRUE

\* C8: the readiness loop sleeps at most ReadyTimeout / PollInterval times;
\* when line 108 finds the success flag unset the call returns the server's
\* error message if run() recorded one and the timeout message otherwise,
\* the latter only with the bound expired, and never attempts the upload.
C8_ReadinessPollBounded ==
    /\ polls * PollInterval <= ReadyTimeout
    /\ elapsed <= ReadyTimeout + PollInterval
    /\ (seen_success = "no" /\ seen_error # "none") =>
          /\ upload = "none"
          /\ upc \in {"finally", "stop_server", "cleanup", "returned"}
          /\ seen_error = "yes" =>
                result = <<FALSE, error_message>> /\ error_message # "none"
          /\ seen_error = "no" =>
                result = <<FALSE, MsgTimeout>> /\ elapsed >= ReadyTimeout
    /\ (Len(result) = 2 /\ result[2] \in {MsgTimeout, MsgServerError}) =>
          upload = "none"

\* the call has returned the timeout message after polling to the bound
C8_Witness ==
    /\ upc = "returned"
    /\ result = <<FALSE, MsgTimeout>>
    /\ polls * PollInterval = ReadyTimeout

C14_VlanBlocks ==
    (calls > 0 /\ gen_error = "none" /\ renderer # "none") =>
        LET blockOf(id) ==
                {j \in DOMAIN config :
                    config[j].sec = "vlan" /\ config[j].key = id}
            has(j, tok) ==
                \E t \in DOMAIN config[j].text : config[j].text[t] = tok
        IN  /\ \A i \in DOMAIN vlans :
                  LET b == blockOf(vlans[i][1])
                  IN  /\ b # {}
                      /\ \E j \in b : has(j, ToString(vlans[i][1]))
                      /\ \E j \in b : has(j, vlans[i][2])
                      /\ \A j \in b, k \in b : \A m \in j..k : m \in b
            /\ \A i1 \in DOMAIN vlans, i2 \in DOMAIN vlans :
                  i1 < i2 =>
                     \A j \in blockOf(vlans[i1][1]), k \in blockOf(vlans[i2][1]) :
                        j < k

\* add_vlan put VLAN 4094 and then VLAN 10 into the map, and alcatel has
\* rendered them
C14_Witness ==
    /\ calls > 0
    /\ renderer = "alcatel"
    /\ vlans = << <<4094, "voice">>, <<10, "voice">> >>
    /\ Len(config) > 6

\* C15 as stated: in a returned text the block of every trunk port carries
\* the id of every VLAN of the map when the renderer is hp, juniper, aruba
\* or alcatel, and for cisco holds exactly one trunk-mode line and no VLAN
\* id.
C15_TrunkCarriesEveryVlanId ==
    (calls > 0 /\ gen_error = "none" /\ renderer # "none") =>
        \A i \in DOMAIN ports :
            ports[i][2].mode = "trunk" =>
                LET b == {j \in DOMAIN config :
                             config[j].sec = "port" /\ config[j].key = ports[i][1]}
                    has(j, tok) ==
                        \E t \in DOMAIN config[j].text : config[j].text[t] = tok
                IN  IF renderer = "cisco"
                    THEN /\ Cardinality({j \in b :
                                config[j].text = <<" switchport mode trunk">>}) = 1
                         /\ \A v \in DOMAIN vlans :
                               \A j \in b : ~has(j, ToString(vlans[v][1]))
                    ELSE \A v \in DOMAIN vlans :
                            \E j \in b : has(j, ToString(vlans[v][1]))

\* C15, amended: as above for hp, aruba, alcatel and cisco; for juniper the
\* block of a trunk port has one "vlan members" line per VLAN of the map,
\* which carries the VLAN's name and not its id.
C15_TrunkReferencesEveryVlan ==
    (calls > 0 /\ gen_error = "none" /\ renderer # "none") =>
        \A i \in DOMAIN ports :
            ports[i][2].mode = "trunk" =>
                LET b == {j \in DOMAIN config :
                             config[j].sec = "port" /\ config[j].key = ports[i][1]}
                    has(j, tok) ==
                        \E t \in DOMAIN config[j].text : config[j].text[t] = tok
                    members == {j \in b : has(j, "vlan members ")}
                IN  CASE renderer = "cisco" ->
                           /\ Cardinality({j \in b :
                                  config[j].text = <<" switchport mode trunk">>}) = 1
                           /\ \A v \in DOMAIN vlans :
                                 \A j \in b : ~has(j, ToString(vlans[v][1]))
                      [] renderer = "juniper" ->
                           /\ Cardinality(members) = Len(vlans)
                           /\ \A v \in DOMAIN vlans :
                                 /\ \E j \in members : has(j, vlans[v][2])
                                 /\ \A j \in b : ~has(j, ToString(vlans[v][1]))
                      [] OTHER ->
                           \A v \in DOMAIN vlans :
                              \E j \in b : has(j, ToString(vlans[v][1]))

\* a trunk port has been rendered for juniper with two VLANs in the map
C15_Witness ==
    /\ calls > 0
    /\ gen_error = "none"
    /\ renderer = "juniper"
    /\ Len(vlans) = 2
    /\ \E i \in DOMAIN ports : ports[i][2].mode = "trunk"

\* C16: in a returned text the PoE lines of a configured port's block are
\* none when supports_poe is false, the brand's enabling lines when it is
\* true and the port's poe flag is set, and the brand's disabling line when
\* it is true and the flag is unset or the entry has no poe field.
C16_PoeLines ==
    (calls > 0 /\ gen_error = "none" /\ renderer # "none") =>
        \A i \in DOMAIN ports :
            LET p == ports[i][1]
                settings == ports[i][2]
                flag == IF "poe" \in DOMAIN settings THEN settings.poe ELSE FALSE
                block == {config[j].text : j \in
                             {k \in DOMAIN config :
                                 config[k].sec = "port" /\ config[k].key = p}}
                enabling ==
                    CASE renderer = "cisco" -> {<<" power inline auto">>}
                      [] renderer = "hp" -> {<<" poe enable">>}
                      [] renderer = "juniper" ->
                           {<<"set poe interface ", "ge-0/0/", ToString(p),
                              " enable">>}
                      [] renderer = "aruba" -> {<<" poe-max-power 30">>}
                      [] renderer = "alcatel" ->
                           {<<" power over-ethernet admin-state enable">>,
                            <<" power over-ethernet priority high">>}
                disabling ==
                    CASE renderer = "cisco" -> {<<" power inline never">>}
                      [] renderer = "hp" -> {<<" poe disable">>}
                      [] renderer = "juniper" ->
                           {<<"set poe interface ", "ge-0/0/", ToString(p),
                              " disable">>}
                      [] renderer = "aruba" -> {<<" no poe">>}
                      [] renderer = "alcatel" ->
                           {<<" power over-ethernet admin-state disable">>}
            IN  block \cap (enabling \cup disabling) =
                    IF ~supports_poe THEN {}
                    ELSE IF flag THEN enabling ELSE disabling

\* on a switch with PoE, a port loaded without a poe field has been rendered
C16_Witness ==
    /\ calls > 0
    /\ gen_error = "none"
    /\ renderer = "hp"
    /\ supports_poe
    /\ \E i \in DOMAIN ports : "poe" \notin DOMAIN ports[i][2]
    /\ \E j \in DOMAIN config : config[j].text = <<" poe disable">>

\* C17: a call takes the branch of the one brand among cisco, hp, juniper,
\* aruba and alcatel that the brand string spells, upper or lower case; for
\* any other brand it takes no branch and returns the empty text without
\* raising, whatever the model holds.
C17_BrandDispatch ==
    calls > 0 =>
        LET names == { <<"cisco", <<"c", "i", "s", "c", "o">>, <<"C", "I", "S", "C", "O">> >>,
                       <<"hp", <<"h", "p">>, <<"H", "P">> >>,
                       <<"juniper", <<"j", "u", "n", "i", "p", "e", "r">>,
                                    <<"J", "U", "N", "I", "P", "E", "R">> >>,
                       <<"aruba", <<"a", "r", "u", "b", "a">>,
                                  <<"A", "R", "U", "B", "A">> >>,
                       <<"alcatel", <<"a", "l", "c", "a", "t", "e", "l">>,
                                    <<"A", "L", "C", "A", "T", "E", "L">> >> }
            spells(n) ==
                /\ Len(brand) = Len(n[2])
                /\ \A i \in DOMAIN brand : brand[i] \in {n[2][i], n[3][i]}
        IN  /\ \A n \in names : spells(n) => renderer = n[1]
            /\ (\A n \in names : ~spells(n)) =>
                  /\ renderer = "none"
                  /\ gen_error = "none"
                  /\ config = <<>>
                  /\ generated = <<>>

\* an unrecognized brand was asked for the text of a model whose port entry
\* has no mode
C17_Witness ==
    /\ calls > 0
    /\ brand = <<"n", "e", "t", "g", "e", "a", "r">>
    /\ \E i \in DOMAIN ports : "mode" \notin DOMAIN ports[i][2]
    /\ generated = <<>>

\* C18: in a text returned for a recognized brand the template's default
\* commands, {hostname} replaced by the hostname, are the last lines, in
\* template order.
C18_DefaultCommandsLast ==
    (calls > 0 /\ gen_error = "none" /\ renderer # "none") =>
        LET cmds == IF "default_commands" \in DOMAIN template
                    THEN template.default_commands
                    ELSE <<>>
            n == Len(cmds)
            total == Len(config)
        IN  /\ total >= n
            /\ \A i \in 1..n :
                  config[total - n + i].text = ReplaceHostname(cmds[i])
            /\ \A j \in 1..(total - n) : config[j].sec # "default_commands"

\* C19 as stated: in a text returned for a recognized brand the hostname
\* line is the first line, then come the VLAN blocks, the port blocks and
\* the VLAN-interface blocks, each in the order of its map, and no line of
\* a later section precedes a line of an earlier one.
C19_HostnameFirstThenSections ==
    (calls > 0 /\ gen_error = "none" /\ renderer # "none") =>
        LET rank(sec) ==
                CASE sec = "hostname" -> 1
                  [] sec = "vlan" -> 2
                  [] sec = "port" -> 3
                  [] sec = "vlan_interface" -> 4
                  [] OTHER -> 5
            keyed(sec, d) ==
                \A i1 \in DOMAIN d, i2 \in DOMAIN d :
                    i1 < i2 =>
                       \A j \in DOMAIN config, k \in DOMAIN config :
                          (/\ config[j].sec = sec /\ config[j].key = d[i1][1]
                           /\ config[k].sec = sec /\ config[k].key = d[i2][1])
                          => j < k
        IN  /\ config[1].sec = "hostname"
            /\ \A j \in DOMAIN config, k \in DOMAIN config :
                  j < k => rank(config[j].sec) <= rank(config[k].sec)
            /\ keyed("vlan", vlans)
            /\ keyed("port", ports)
            /\ keyed("vlan_interface", vlan_interfaces)

\* C19, amended: the text opens with the brand's fixed lines that enter
\* configuration mode, the hostname line comes right after them, and the
\* VLAN blocks, the port blocks and the VLAN-interface blocks follow in
\* that order, each in the order of its map.
C19_PreambleHostnameSections ==
    (calls > 0 /\ gen_error = "none" /\ renderer # "none") =>
        LET rank(sec) ==
                CASE sec = "preamble" -> 0
                  [] sec = "hostname" -> 1
                  [] sec = "vlan" -> 2
                  [] sec = "port" -> 3
                  [] sec = "vlan_interface" -> 4
                  [] OTHER -> 5
            place(d, key) == CHOOSE i \in DOMAIN d : d[i][1] = key
            keyed(sec, d) ==
                /\ \A j \in DOMAIN config :
                      config[j].sec = sec =>
                         \E i \in DOMAIN d : d[i][1] = config[j].key
                /\ \A j \in 1..(Len(config) - 1) :
                      (config[j].sec = sec /\ config[j + 1].sec = sec) =>
                         place(d, config[j].key) <= place(d, config[j + 1].key)
            opening ==
                CASE renderer = "cisco" ->
                       << <<"enable">>, <<"configure terminal">>,
                          <<"hostname ">> \o hostname >>
                  [] renderer \in {"hp", "aruba"} ->
                       << <<"configure">>, <<"hostname ">> \o hostname >>
                  [] renderer = "juniper" ->
                       << <<"configure">>,
                          <<"set system host-name ">> \o hostname >>
                  [] renderer = "alcatel" ->
                       << <<"configure terminal">>,
                          <<"system name ">> \o hostname >>
        IN  /\ Len(config) >= Len(opening)
            /\ \A j \in DOMAIN opening : config[j].text = opening[j]
            /\ \A j \in DOMAIN config :
                  rank(config[j].sec) <= 1 <=> j <= Len(opening)
            /\ \A j \in 1..(Len(config) - 1) :
                  rank(config[j].sec) <= rank(config[j + 1].sec)
            /\ keyed("vlan", vlans)
            /\ keyed("port", ports)
            /\ keyed("vlan_interface", vlan_interfaces)

\* a model with two VLANs, two ports and a VLAN interface has been rendered
C19_Witness ==
    /\ calls > 0
    /\ gen_error = "none"
    /\ renderer = "hp"
    /\ Len(vlans) = 2
    /\ Len(ports) = 2
    /\ Len(vlan_interfaces) = 1

\* C20: no generate_config call raises.
C20_GenerateNeverRaises ==
    gen_error = "none"

(***************************************************************************)
(* Properties of the mutators and of the profile (SpecSwitch)              *)
(***************************************************************************)
\* C21: a mutator replaces its own entry or settings group by the values it
\* was called with, the parameters left out taking their defaults and
\* nothing of the earlier value being kept, and changes no other part of
\* the model; it takes any value, a VLAN id beyond 4094 as well.
C21_MutatorsReplaceOwnPart ==
    [][ (ops' = ops + 1) =>
        LET oneEntry(old, new, k) ==
                /\ HasKey(new, k)
                /\ Len(new) = IF HasKey(old, k) THEN Len(old) ELSE Len(old) + 1
                /\ \A i \in DOMAIN old : old[i][1] # k => new[i] = old[i]
            given(a, k, default) == IF k \in DOMAIN a THEN a[k] ELSE default
        IN  CASE last_op' = "add_vlan" ->
                   /\ \E a \in VlanArgs :
                         /\ oneEntry(vlans, vlans', a[1])
                         /\ DictGet(vlans', a[1], "") = a[2]
                   /\ UNCHANGED <<hostname, ports, vlan_interfaces, snmp, ssh,
                                  ssh_users, stp>>
              [] last_op' = "set_port_config" ->
                   /\ \E p \in PortNumbers, a \in PortArgs :
                         /\ oneEntry(ports, ports', p)
                         /\ DictGet(ports', p, EmptyDict) =
                                [mode |-> a[1], vlan |-> a[2], poe |-> a[3]]
                   /\ UNCHANGED <<hostname, vlans, vlan_interfaces, snmp, ssh,
                                  ssh_users, stp>>
              [] last_op' = "set_vlan_interface" ->
                   /\ \E id \in VlanIds, kwargs \in InterfaceKwargs :
                         /\ oneEntry(vlan_interfaces, vlan_interfaces', id)
                         /\ DictGet(vlan_interfaces', id, EmptyDict) = kwargs
                   /\ UNCHANGED <<hostname, vlans, ports, snmp, ssh, ssh_users,
                                  stp>>
              [] last_op' = "set_hostname" ->
                   UNCHANGED <<vlans, ports, vlan_interfaces, snmp, ssh,
                               ssh_users, stp>>
              [] last_op' = "set_snmp" ->
                   /\ \E a \in SnmpArgs :
                         /\ snmp'.enabled = a.enabled
                         /\ snmp'.community = given(a, "community", "public")
                         /\ snmp'.version = given(a, "version", "2c")
                         /\ snmp'.location = given(a, "location", "")
                         /\ snmp'.contact = given(a, "contact", "")
                   /\ UNCHANGED <<hostname, vlans, ports, vlan_interfaces, ssh,
                                  ssh_users, stp>>
              [] last_op' = "set_ssh" ->
                   /\ \E a \in SshArgs :
                         /\ ssh'.enabled = a.enabled
                         /\ ssh'.version = given(a, "version", "2")
                         /\ ssh'.timeout = given(a, "timeout", "60")
                         /\ ssh'.auth_retries = given(a, "auth_retries", "3")
                         /\ ssh'.key_auth = given(a, "key_auth", FALSE)
                   /\ UNCHANGED <<hostname, vlans, ports, vlan_interfaces, snmp,
                                  ssh_users, stp>>
              [] last_op' = "set_spanning_tree" ->
                   /\ \E a \in StpArgs :
                         /\ stp'.enabled = a.enabled
                         /\ stp'.mode = given(a, "mode", "rapid-pvst")
                         /\ stp'.priority = given(a, "priority", "32768")
                         /\ stp'.portfast = given(a, "portfast", TRUE)
                         /\ stp'.bpduguard = given(a, "bpduguard", TRUE)
                         /\ stp'.loopguard = given(a, "loopguard", FALSE)
                   /\ UNCHANGED <<hostname, vlans, ports, vlan_interfaces, snmp,
                                  ssh, ssh_users>>
              [] OTHER -> TRUE
      ]_vars

\* set_snmp(False) on a model a load_profile had filled: location and
\* contact are back to their defaults, the VLANs, ports and users are there
C21_Witness ==
    /\ last_op = "set_snmp"
    /\ ~snmp.enabled
    /\ snmp.location = ""
    /\ snmp.contact = ""
    /\ Len(vlans) = 2
    /\ Len(ports) = 2
    /\ Len(ssh_users) = 1

\* C22: supports_poe is what the template says at construction (false
\* without a template or without its "supports" entry) and no later call
\* changes it.
C22_SupportsPoeFixed ==
    /\ supports_poe = ( /\ "supports" \in DOMAIN template
                        /\ "poe" \in DOMAIN template.supports
                        /\ template.supports.poe )
    /\ [][supports_poe' = supports_poe]_vars

\* a Switch with PoE after a load_profile, one more mutation and a
\* generate_config
C22_Witness ==
    /\ supports_poe
    /\ ops >= 2
    /\ calls > 0
    /\ Len(vlans) >= 2
    /\ Len(ssh_users) > 0

\* C23: every key of the VLAN map is an integer of 1..4094, whatever
\* add_vlan calls, VLAN dialog replacements and load_profile calls came
\* before.
C23_VlanIdsInRange ==
    \A i \in DOMAIN vlans : vlans[i][1] \in 1..4094

\* C28: a load_profile that fails, at whatever statement, leaves the whole
\* model as it was before the call.
C28_FailedLoadChangesNothing ==
    [][ (ops' = ops + 1 /\ last_op' = "load_profile" /\ load_error' # "none")
        => UNCHANGED switchModel ]_vars

\* C25: for hp, juniper and aruba what generate_config gives does not
\* depend on the SNMP settings, the SSH settings, the SSH users or the STP
\* settings; for every brand it does not depend on the dhcp_enabled field
\* of a VLAN interface.  Two models that differ in nothing else are the two
\* ends of a step that changes nothing else.
C25_OutputIgnoresSettings ==
    [][ (ops' = ops + 1) =>
        LET noDhcp(ifs) ==
                [i \in DOMAIN ifs |->
                    <<ifs[i][1],
                      [k \in DOMAIN ifs[i][2] \ {"dhcp_enabled"} |->
                          ifs[i][2][k]]>>]
        IN  /\ ( /\ Dispatch \in {"hp", "juniper", "aruba"}
                 /\ UNCHANGED <<hostname, vlans, ports, vlan_interfaces>> )
               => Outcome' = Outcome
            /\ ( /\ UNCHANGED <<hostname, vlans, ports, snmp, ssh, ssh_users,
                                stp>>
                 /\ noDhcp(vlan_interfaces') = noDhcp(vlan_interfaces) )
               => Outcome' = Outcome
      ]_vars

\* an aruba Switch filled by a load_profile that switched SNMP and SSH on,
\* dhcp_enabled set afterwards on the interface of VLAN 10, and a text
\* generated from it
C25_Witness ==
    /\ Dispatch = "aruba"
    /\ snmp.enabled
    /\ ssh.enabled
    /\ Len(ssh_users) = 1
    /\ Len(ports) = 2
    /\ \E i \in DOMAIN vlan_interfaces :
          /\ "dhcp_enabled" \in DOMAIN vlan_interfaces[i][2]
          /\ vlan_interfaces[i][2].dhcp_enabled
    /\ calls > 0
    /\ gen_error = "none"
    /\ Len(generated) > 0

(***************************************************************************)
(* Properties of the port and VLAN-interface blocks (SpecSwitch)           *)
(***************************************************************************)
\* C26 as stated: for a port in access mode whose vlan is unset, the block
\* of the port holds nothing but the interface selector, the PoE directive
\* when supports_poe holds, and the block terminator, for every one of the
\* five brands.
C26_AccessWithoutVlanEmitsNothing ==
    (calls > 0 /\ gen_error = "none" /\ renderer # "none") =>
        \A i \in DOMAIN ports :
            LET p == ports[i][1]
                settings == ports[i][2]
                flag == IF "poe" \in DOMAIN settings THEN settings.poe ELSE FALSE
                block == {config[j].text : j \in
                             {k \in DOMAIN config :
                                 config[k].sec = "port" /\ config[k].key = p}}
                selector ==
                    CASE renderer = "cisco" ->
                           {<<"interface GigabitEthernet0/", ToString(p)>>}
                      [] renderer = "hp" -> {<<"interface ", ToString(p)>>}
                      [] renderer = "juniper" -> {}
                      [] renderer = "aruba" -> {<<"interface ", ToString(p)>>}
                      [] renderer = "alcatel" ->
                           {<<"interfaces port ", "1/1/", ToString(p)>>}
                terminator ==
                    CASE renderer = "cisco" -> {<<"!">>}
                      [] renderer = "hp" -> {<<"exit">>}
                      [] renderer = "juniper" -> {}
                      [] renderer = "aruba" -> {<<"exit">>}
                      [] renderer = "alcatel" -> {<<" exit">>}
                poe ==
                    IF ~supports_poe THEN {}
                    ELSE CASE renderer = "cisco" ->
                                IF flag THEN {<<" power inline auto">>}
                                ELSE {<<" power inline never">>}
                           [] renderer = "hp" ->
                                IF flag THEN {<<" poe enable">>}
                                ELSE {<<" poe disable">>}
                           [] renderer = "juniper" ->
                                IF flag
                                THEN {<<"set poe interface ", "ge-0/0/",
                                        ToString(p), " enable">>}
                                ELSE {<<"set poe interface ", "ge-0/0/",
                                        ToString(p), " disable">>}
                           [] renderer = "aruba" ->
                                IF flag THEN {<<" poe-max-power 30">>}
                                ELSE {<<" no poe">>}
                           [] renderer = "alcatel" ->
                                IF flag
                                THEN {<<" power over-ethernet admin-state enable">>,
                                      <<" power over-ethernet priority high">>}
                                ELSE {<<" power over-ethernet admin-state disable">>}
            IN  (settings.mode = "access" /\ ~HasVlan(settings)) =>
                    block = selector \cup poe \cup terminator

\* C26 as the code has it: for a port in access mode whose vlan is unset no
\* brand emits a VLAN assignment; the block of the port holds the interface
\* selector, the PoE directive when supports_poe holds and the block
\* terminator (juniper has neither selector nor terminator), and besides
\* them the mode line " switchport mode access" for cisco and the line
\* " admin-state enable" for alcatel.
C26_AccessWithoutVlanAssignsNone ==
    (calls > 0 /\ gen_error = "none" /\ renderer # "none") =>
        \A i \in DOMAIN ports :
            LET p == ports[i][1]
                settings == ports[i][2]
                flag == IF "poe" \in DOMAIN settings THEN settings.poe ELSE FALSE
                block == {config[j].text : j \in
                             {k \in DOMAIN config :
                                 config[k].sec = "port" /\ config[k].key = p}}
                selector ==
                    CASE renderer = "cisco" ->
                           {<<"interface GigabitEthernet0/", ToString(p)>>}
                      [] renderer = "hp" -> {<<"interface ", ToString(p)>>}
                      [] renderer = "juniper" -> {}
                      [] renderer = "aruba" -> {<<"interface ", ToString(p)>>}
                      [] renderer = "alcatel" ->
                           {<<"interfaces port ", "1/1/", ToString(p)>>}
                terminator ==
                    CASE renderer = "cisco" -> {<<"!">>}
                      [] renderer = "hp" -> {<<"exit">>}
                      [] renderer = "juniper" -> {}
                      [] renderer = "aruba" -> {<<"exit">>}
                      [] renderer = "alcatel" -> {<<" exit">>}
                poe ==
                    IF ~supports_poe THEN {}
                    ELSE CASE renderer = "cisco" ->
                                IF flag THEN {<<" power inline auto">>}
                                ELSE {<<" power inline never">>}
                           [] renderer = "hp" ->
                                IF flag THEN {<<" poe enable">>}
                                ELSE {<<" poe disable">>}
                           [] renderer = "juniper" ->
                                IF flag
                                THEN {<<"set poe interface ", "ge-0/0/",
                                        ToString(p), " enable">>}
                                ELSE {<<"set poe interface ", "ge-0/0/",
                                        ToString(p), " disable">>}
                           [] renderer = "aruba" ->
                                IF flag THEN {<<" poe-max-power 30">>}
                                ELSE {<<" no poe">>}
                           [] renderer = "alcatel" ->
                                IF flag
                                THEN {<<" power over-ethernet admin-state enable">>,
                                      <<" power over-ethernet priority high">>}
                                ELSE {<<" power over-ethernet admin-state disable">>}
                modeLine ==
                    CASE renderer = "cisco" -> {<<" switchport mode access">>}
                      [] renderer = "alcatel" -> {<<" admin-state enable">>}
                      [] OTHER -> {}
            IN  (settings.mode = "access" /\ ~HasVlan(settings)) =>
                    block = selector \cup modeLine \cup poe \cup terminator

\* an hp Switch with PoE has rendered an access port without VLAN
C26_Witness ==
    /\ calls > 0
    /\ gen_error = "none"
    /\ renderer = "hp"
    /\ supports_poe
    /\ \E i \in DOMAIN ports :
          /\ ports[i][2].mode = "access"
          /\ ~HasVlan(ports[i][2])
    /\ Len(vlans) > 0

\* C27: in a text returned for one of the five brands the block of every
\* VLAN interface holds an IP/mask line exactly when the interface has both
\* an ip and a mask, and an administrative-state line whose polarity is that
\* of the shutdown flag.
C27_InterfaceAddressAndState ==
    (calls > 0 /\ gen_error = "none" /\ renderer # "none") =>
        \A i \in DOMAIN vlan_interfaces :
            LET vlan_id == vlan_interfaces[i][1]
                vlan_settings == vlan_interfaces[i][2]
                block == {config[j].text : j \in
                             {k \in DOMAIN config :
                                 /\ config[k].sec = "vlan_interface"
                                 /\ config[k].key = vlan_id}}
                both == /\ "ip" \in DOMAIN vlan_settings
                        /\ "mask" \in DOMAIN vlan_settings
                down == IF "shutdown" \in DOMAIN vlan_settings
                        THEN vlan_settings.shutdown ELSE FALSE
                address ==
                    {t \in block :
                        \/ t[1] \in {" ip address ", " address "}
                        \/ Len(t) >= 3 /\ t[3] = " family inet address "}
                stateDown == {<<" shutdown">>, <<" admin-state disable">>,
                              <<" disable">>}
                stateUp == {<<" no shutdown">>, <<" admin-state enable">>,
                            <<" enable">>}
            IN  /\ (address # {}) <=> both
                /\ both =>
                      \A t \in address :
                          /\ vlan_settings.ip \in {t[k] : k \in DOMAIN t}
                          /\ vlan_settings.mask \in {t[k] : k \in DOMAIN t}
                /\ block \cap (IF down THEN stateDown ELSE stateUp) # {}
                /\ block \cap (IF down THEN stateUp ELSE stateDown) = {}

(***************************************************************************)
(* Properties of the profile round trip (SpecProfile)                      *)
(***************************************************************************)
\* C24: loading the file save_profile wrote gives back the model as it was
\* when it was saved: the VLAN, port and VLAN-interface maps with their
\* integer keys, values and order, and the SNMP, SSH (users included) and
\* STP settings, whatever strings the model held.
C24_SaveLoadRestores ==
    (last_op = "load_profile" /\ opened = "saved") =>
        <<vlans, ports, vlan_interfaces, snmp, ssh, ssh_users, stp>>
            = snapshot[1]

====
